---------------------------- MODULE Spec2Model ----------------------------
(***************************************************************************)
(* RustDesk Server Monitor (src/rustdesk_server.py): the presence table,   *)
(* the monitor database (device_info, heartbeat_logs, device_notes), the   *)
(* read-only registry (peer table) and the request handlers.               *)
(*                                                                         *)
(* Time is counted in whole seconds. A text is a sequence of one-character *)
(* strings, so that Python's slicing s[:n] is SubSeq and len is Len.       *)
(* Every handler is one atomic step: the handlers are coroutines of one    *)
(* event loop and none awaits after its body has been read.                *)
(***************************************************************************)
EXTENDS Integers, Sequences, FiniteSets, TLC

(***************************************************************************)
(* Program constants.                                                      *)
(***************************************************************************)
OFFLINE_TIMEOUT_SECONDS == 90
LOG_RETENTION == 1000
HEARTBEAT_BODY_LIMIT == 10240
SYSINFO_BODY_LIMIT == 51200
ID_LEN == 255
IP_LEN == 45
HOSTNAME_LEN == 255
USERNAME_LEN == 255
OS_LEN == 500
CPU_LEN == 500
MEMORY_LEN == 100
VERSION_LEN == 50
UUID_LEN == 255
NOTE_LEN == 500

(***************************************************************************)
(* Bounds of the model.                                                    *)
(***************************************************************************)
StartTime == 1000      \* the clock's reading when the process starts
MaxTicks == 1          \* clock advances per behaviour
MaxRequests == 2       \* ingest requests (heartbeat, sysinfo) per behaviour
PrefillLen == 999      \* heartbeat_logs rows left by earlier process lifetimes

Min(a, b) == IF a < b THEN a ELSE b
Max(a, b) == IF a > b THEN a ELSE b

(***************************************************************************)
(* Texts.                                                                  *)
(***************************************************************************)
Rep(c, n) == [i \in 1..n |-> c]

\* mutant of Slice: the cut forgotten
SliceNothing(s, n) == s

\* Python s[:n]
Slice(s, n) == SubSeq(s, 1, Min(n, Len(s)))

DecimalChars == <<"0", "1", "2", "3", "4", "5", "6", "7", "8", "9">>
DecimalSet == {DecimalChars[i] : i \in 1..10}
\* str.isdigit() also accepts digits that are not decimal, such as a superscript two
SuperscriptTwo == "sup2"
DigitSet == DecimalSet \cup {SuperscriptTwo}

RECURSIVE NatStr(_)
NatStr(n) ==
    IF n < 10 THEN <<DecimalChars[n + 1]>>
    ELSE NatStr(n \div 10) \o <<DecimalChars[(n % 10) + 1]>>

IntStr(k) == IF k < 0 THEN <<"-">> \o NatStr(0 - k) ELSE NatStr(k)

DecimalValue(c) == CHOOSE d \in 0..9 : DecimalChars[d + 1] = c

RECURSIVE DecimalStrValue(_)
DecimalStrValue(s) ==
    IF Len(s) = 0 THEN 0
    ELSE 10 * DecimalStrValue(SubSeq(s, 1, Len(s) - 1)) + DecimalValue(s[Len(s)])

(***************************************************************************)
(* JSON values as Python sees them after request.json() / json.loads: null *)
(* (None), an integer, a text. One record shape for all three.             *)
(***************************************************************************)
JNull == [t |-> "null", n |-> 0, s |-> <<>>]
JInt(k) == [t |-> "int", n |-> k, s |-> <<>>]
JStr(x) == [t |-> "str", n |-> 0, s |-> x]

\* Python truthiness
PyTruthy(v) ==
    CASE v.t = "null" -> FALSE
      [] v.t = "int" -> v.n # 0
      [] v.t = "str" -> v.s # <<>>

\* Python str(v)
PyStr(v) ==
    CASE v.t = "null" -> <<"N", "o", "n", "e">>
      [] v.t = "int" -> IntStr(v.n)
      [] v.t = "str" -> v.s

\* str.isdigit()
IsDigit(s) == Len(s) > 0 /\ \A i \in 1..Len(s) : s[i] \in DigitSet

\* dict.get(key, default)
Get(d, key, default) == IF key \in DOMAIN d THEN d[key] ELSE default

EmptyDict == [k \in {} |-> JNull]


\* used where the code says "unknown" (registry IP, registry id) and "never"
UNKNOWN == <<"u", "n", "k", "n", "o", "w", "n">>
NEVER == <<"n", "e", "v", "e", "r">>

\* datetime.strftime("%Y-%m-%d %H:%M:%S"): the text of a time, one per second
Strftime(t) == NatStr(t)

(***************************************************************************)
(* State.                                                                  *)
(***************************************************************************)
VARIABLES
    now,              \* datetime.now(), in seconds
    ticks,            \* clock advances so far
    nreq,             \* ingest requests handled so far
    peer,             \* the registry: [exists, rows], rows of the peer table
    online_devices,   \* presence table: id -> [last_heartbeat, ip, info]
    device_info,      \* monitor db: id -> telemetry row
    heartbeat_logs,   \* monitor db: rows in rowid order
    log_seq,          \* monitor db: AUTOINCREMENT counter of heartbeat_logs
    device_notes,     \* monitor db: device_id -> [note, updated_at]
    req,              \* the request handled last
    resp,             \* its response
    faults,           \* the storage faults in effect: which sqlite3 calls raise
    txn,              \* connection -> the call in progress on it: where it stands,
                      \* its request, its open transaction on heartbeat_logs
    logged            \* id -> "device came online" lines logged by this process

vars == <<now, ticks, nreq, peer, online_devices, device_info, heartbeat_logs,
          log_seq, device_notes, req, resp, faults, txn, logged>>

\* what no handler writes: the condition of the storage, the open transactions
env == <<faults, txn>>

store == <<device_info, heartbeat_logs, log_seq, device_notes>>

(***************************************************************************)
(* Storage faults. Every method of DatabaseManager runs its sqlite3 calls  *)
(* in one try block; a fault names the method, the call that raises, and,  *)
(* for a lookup, the device whose row cannot be read.                      *)
(***************************************************************************)
Fault(op, at, id) == [op |-> op, at |-> at, id |-> id]

\* the call at of the method op raises
Fails(op, at) == \E f \in faults : f.op = op /\ f.at = at

\* the lookup op raises for the device id
LookupFails(op, id) == \E f \in faults : f.op = op /\ f.id = id

\* mutant of Rollback: the statements executed before the fault stay applied
RollbackKeepsWork(committed, working) == working

\* the method leaves through its except clause before conn.commit(): the
\* connection is dropped and its transaction rolled back
Rollback(committed, working) == committed

(***************************************************************************)
(* RustDeskMonitor.get_all_peer_ids                                        *)
(***************************************************************************)
\* The info column of a peer row, by what json.loads makes of it:
\*   "null"    NULL or the empty text (falsy, not parsed)
\*   "invalid" text that is not JSON (info_data = {"raw": ...})
\*   "nondict" JSON that is not an object (a list, a text, a number, null)
\*   "dict"    a JSON object, d
InfoData(info) ==
    CASE info.kind = "null" -> EmptyDict
      [] info.kind = "invalid" -> [k \in {"raw"} |-> JStr(<<"r", "a", "w">>)]
      [] info.kind = "dict" -> info.d

\* info_data.get raises AttributeError when info_data is not a dict
PeerRowRaises(row) == row.info.kind = "nondict"

PeerIp(row) ==
    LET info_data == InfoData(row.info)
    IN  IF PyTruthy(Get(info_data, "ip", JNull))
        THEN PyStr(Get(info_data, "ip", JStr(UNKNOWN)))
        ELSE UNKNOWN

PeerEntry(row) ==
    [id |-> IF row.id # <<>> THEN row.id ELSE UNKNOWN,
     created_at |-> Strftime(row.created_at),
     ip |-> PeerIp(row)]

\* ORDER BY created_at ASC: every enumeration of the rows in ascending created_at
OrderByCreatedAt(rows) ==
    {o \in [1..Cardinality(rows) -> rows] :
        /\ \A i, j \in DOMAIN o : i # j => o[i] # o[j]
        /\ \A i, j \in DOMAIN o : i < j => o[i].created_at <= o[j].created_at}

\* the possible results of get_all_peer_ids
GetAllPeerIds ==
    IF ~peer.exists THEN {<<>>}
    ELSE IF \E row \in peer.rows : PeerRowRaises(row) THEN {<<>>}
    ELSE {[i \in DOMAIN o |-> PeerEntry(o[i])] : o \in OrderByCreatedAt(peer.rows)}

(***************************************************************************)
(* DatabaseManager                                                         *)
(***************************************************************************)
TelemetryRow(id, d, ip, created, seen) ==
    [id |-> id,
     hostname |-> Slice(PyStr(Get(d, "hostname", JStr(<<>>))), HOSTNAME_LEN),
     username |-> Slice(PyStr(Get(d, "username", JStr(<<>>))), USERNAME_LEN),
     os |-> Slice(PyStr(Get(d, "os", JStr(<<>>))), OS_LEN),
     cpu |-> Slice(PyStr(Get(d, "cpu", JStr(<<>>))), CPU_LEN),
     memory |-> Slice(PyStr(Get(d, "memory", JStr(<<>>))), MEMORY_LEN),
     version |-> Slice(PyStr(Get(d, "version", JStr(<<>>))), VERSION_LEN),
     uuid |-> Slice(PyStr(Get(d, "uuid", JStr(<<>>))), UUID_LEN),
     created_at |-> created,
     last_seen |-> seen,
     last_ip |-> Slice(ip, IP_LEN)]

\* mutant of UpdateDeviceInfo: a field absent from the report keeps the value
\* the row had
UpdateDeviceInfoMerge(table, d, ip, t) ==
    IF ~PyTruthy(Get(d, "id", JNull)) THEN table
    ELSE LET id == PyStr(Get(d, "id", JStr(<<>>)))
             new == TelemetryRow(id, d, ip, t, t)
         IN  IF id \in DOMAIN table
             THEN [table EXCEPT ![id] =
                      [k \in DOMAIN new |->
                          IF k \in {"id", "created_at"} THEN table[id][k]
                          ELSE IF k \in {"last_seen", "last_ip"} \/ k \in DOMAIN d
                          THEN new[k]
                          ELSE table[id][k]]]
             ELSE (id :> new) @@ table

\* mutant of UpdateDeviceInfo: INSERT OR REPLACE, the row written anew each time
UpdateDeviceInfoReplace(table, d, ip, t) ==
    IF ~PyTruthy(Get(d, "id", JNull)) THEN table
    ELSE LET id == PyStr(Get(d, "id", JStr(<<>>)))
         IN  (id :> TelemetryRow(id, d, ip, t, t)) @@ table

\* mutant of UpdateDeviceInfo: the check of the id forgotten
UpdateDeviceInfoNoIdCheck(table, d, ip, t) ==
    LET id == PyStr(Get(d, "id", JStr(<<>>)))
    IN  IF id \in DOMAIN table
        THEN [table EXCEPT ![id] = TelemetryRow(id, d, ip, @.created_at, t)]
        ELSE (id :> TelemetryRow(id, d, ip, t, t)) @@ table

\* update_device_info(device_info, ip_address) at time t: the new device_info table
UpdateDeviceInfo(table, d, ip, t) ==
    IF Fails("update_device_info", "connect") THEN table
    ELSE IF ~PyTruthy(Get(d, "id", JNull)) THEN table
    ELSE LET id == PyStr(Get(d, "id", JStr(<<>>)))
             working ==
                 IF id \in DOMAIN table
                 THEN [table EXCEPT ![id] = TelemetryRow(id, d, ip, @.created_at, t)]
                 ELSE (id :> TelemetryRow(id, d, ip, t, t)) @@ table
         IN  IF Fails("update_device_info", "commit")
             THEN Rollback(table, working)
             ELSE working

\* mutant of GetDeviceInfo: the WHERE clause forgotten, any row is fetched
GetDeviceInfoAnyRow(id) ==
    IF id \in DOMAIN device_info THEN device_info[id]
    ELSE IF DOMAIN device_info # {}
    THEN device_info[CHOOSE x \in DOMAIN device_info : TRUE]
    ELSE EmptyDict

\* get_device_info(device_id): dict(row), or {} when there is no row
GetDeviceInfo(id) ==
    IF LookupFails("get_device_info", id) THEN EmptyDict
    ELSE IF id \in DOMAIN device_info THEN device_info[id]
    ELSE EmptyDict

\* get_device_note(device_id): the note, "" when there is no row or on a fault
GetDeviceNote(id) ==
    IF LookupFails("get_device_note", id) THEN <<>>
    ELSE IF id \in DOMAIN device_notes THEN device_notes[id].note
    ELSE <<>>

\* update_device_note(device_id, note) at time t: the new device_notes table
UpdateDeviceNote(table, device_id, note, t) ==
    IF Fails("update_device_note", "connect") THEN table
    ELSE LET key == Slice(PyStr(device_id), ID_LEN)
             working ==
                 (key :> [note |-> Slice(PyStr(note), NOTE_LEN), updated_at |-> t])
                 @@ table
         IN  IF Fails("update_device_note", "commit")
             THEN Rollback(table, working)
             ELSE working

(***************************************************************************)
(* DatabaseManager.log_heartbeat                                           *)
(***************************************************************************)
\* int(version) if version and str(version).isdigit() else None.
\* int() raises ValueError on a digit that is not decimal.
LogVersionRaises(version) ==
    /\ PyTruthy(version)
    /\ IsDigit(PyStr(version))
    /\ \E i \in 1..Len(PyStr(version)) : PyStr(version)[i] \notin DecimalSet

LogVersion(version) ==
    IF PyTruthy(version) /\ IsDigit(PyStr(version))
    THEN JInt(DecimalStrValue(PyStr(version)))
    ELSE JNull

\* the sets obtained from S by taking m elements out
RECURSIVE Without(_, _)
Without(S, m) ==
    IF m = 0 THEN {S}
    ELSE UNION {Without(S \ {e}, m - 1) : e \in S}

\* SELECT id FROM heartbeat_logs ORDER BY timestamp DESC LIMIT n: the id sets the
\* query can return. Rows newer than the n-th newest timestamp are all in it; which
\* of the rows that carry exactly that timestamp fill it up is left open by SQL.
NewestIds(rows, n) ==
    IF Len(rows) <= n THEN {{rows[i].id : i \in DOMAIN rows}}
    ELSE LET R == {rows[i] : i \in DOMAIN rows}
             TS == {r.timestamp : r \in R}
             cut == CHOOSE t \in TS :
                        /\ Cardinality({r \in R : r.timestamp > t}) < n
                        /\ Cardinality({r \in R : r.timestamp >= t}) >= n
             above == {r \in R : r.timestamp > cut}
             tied == {r \in R : r.timestamp = cut}
         IN  {{r.id : r \in above \cup T} :
                 T \in Without(tied, Cardinality(tied) - (n - Cardinality(above)))}

\* mutant of DeleteNotIn: the trim forgotten
DeleteNothing(rows, keep) == rows

\* DELETE FROM heartbeat_logs WHERE id NOT IN (keep)
DeleteNotIn(rows, keep) == SelectSeq(rows, LAMBDA r : r.id \in keep)

LogRow(rowid, device_id, ip_address, version, t) ==
    [id |-> rowid,
     device_id |-> Slice(device_id, ID_LEN),
     ip_address |-> Slice(ip_address, IP_LEN),
     timestamp |-> t,
     version |-> LogVersion(version)]

\* log_heartbeat(device_id, ip_address, version) at time t: the possible new
\* [rows, seq] of heartbeat_logs. An exception leaves the table as it was.
LogHeartbeat(rows, seq, device_id, ip_address, version, t) ==
    LET before == [rows |-> rows, seq |-> seq]
        inserted == Append(rows, LogRow(seq + 1, device_id, ip_address, version, t))
    IN  IF Fails("log_heartbeat", "connect") THEN {before}
        ELSE IF LogVersionRaises(version) THEN {before}
        ELSE IF Fails("log_heartbeat", "delete")
        THEN {Rollback(before, [rows |-> inserted, seq |-> seq + 1])}
        ELSE {IF Fails("log_heartbeat", "commit")
              THEN Rollback(before, [rows |-> DeleteNotIn(inserted, keep), seq |-> seq + 1])
              ELSE [rows |-> DeleteNotIn(inserted, keep), seq |-> seq + 1] :
                 keep \in NewestIds(inserted, LOG_RETENTION)}

(***************************************************************************)
(* Requests and responses.                                                 *)
(***************************************************************************)
\* A request: op, client ip (get_client_ip), the content-length header (-1: none),
\* the number of bytes of the body, and the body by what request.json() makes of
\* it: "invalid" (raises), "nondict" (JSON, not an object), "dict" (the object d).
\* A body sent with a content-length header has that many bytes.
Request(op, ip, content_length, kind, d) ==
    [op |-> op, ip |-> ip, content_length |-> content_length,
     size |-> Max(content_length, 0),
     body |-> [kind |-> kind, d |-> d]]

\* A request sent with Transfer-Encoding: chunked carries no content-length header
ChunkedRequest(op, ip, size, kind, d) ==
    [op |-> op, ip |-> ip, content_length |-> -1,
     size |-> size,
     body |-> [kind |-> kind, d |-> d]]

NoRequest == Request("none", <<>>, -1, "dict", EmptyDict)

Response(op, status) ==
    [op |-> op, status |-> status, total |-> 0, online |-> 0, offline |-> 0,
     devices |-> <<>>]

\* if content_length and int(content_length) > limit
TooLarge(r, limit) == r.content_length # -1 /\ r.content_length > limit

\* get_client_ip: the forwarded address, cut to 45 characters
GetClientIp(r) == Slice(r.ip, IP_LEN)

(***************************************************************************)
(* Presence and the merged view (get_devices, index).                      *)
(***************************************************************************)
\* mutant of IsOnline: a debounce, offline only after two windows without a
\* heartbeat
IsOnlineDebounced(last_heartbeat, t) == t - last_heartbeat < 2 * OFFLINE_TIMEOUT_SECONDS

\* mutant of IsOnline: <= for <
IsOnlineInclusive(last_heartbeat, t) == t - last_heartbeat <= OFFLINE_TIMEOUT_SECONDS

\* datetime.now() - last_heartbeat < timedelta(seconds=OFFLINE_TIMEOUT_SECONDS)
IsOnline(last_heartbeat, t) == t - last_heartbeat < OFFLINE_TIMEOUT_SECONDS

\* mutant of MergedView: the address of the last heartbeat shown as last_ip
\* of a tracked device
MergedViewPresenceIp(p, t) ==
    LET device_id == p.id
        device_detail == GetDeviceInfo(device_id)
        device_note == GetDeviceNote(device_id)
        tracked == device_id \in DOMAIN online_devices
    IN  [id |-> device_id,
         note |-> device_note,
         created_at |-> p.created_at,
         original_ip |-> p.ip,
         hostname |-> Get(device_detail, "hostname", <<>>),
         username |-> Get(device_detail, "username", <<>>),
         os |-> Get(device_detail, "os", <<>>),
         cpu |-> Get(device_detail, "cpu", <<>>),
         memory |-> Get(device_detail, "memory", <<>>),
         version |-> Get(device_detail, "version", <<>>),
         last_ip |-> IF tracked THEN online_devices[device_id].ip
                     ELSE Get(device_detail, "last_ip", p.ip),
         is_online |-> tracked /\ IsOnline(online_devices[device_id].last_heartbeat, t),
         last_heartbeat_time |->
             IF tracked THEN Strftime(online_devices[device_id].last_heartbeat)
             ELSE NEVER]

\* one entry of get_devices, for the registry entry p, at time t
MergedView(p, t) ==
    LET device_id == p.id
        device_detail == GetDeviceInfo(device_id)
        device_note == GetDeviceNote(device_id)
        tracked == device_id \in DOMAIN online_devices
    IN  [id |-> device_id,
         note |-> device_note,
         created_at |-> p.created_at,
         original_ip |-> p.ip,
         hostname |-> Get(device_detail, "hostname", <<>>),
         username |-> Get(device_detail, "username", <<>>),
         os |-> Get(device_detail, "os", <<>>),
         cpu |-> Get(device_detail, "cpu", <<>>),
         memory |-> Get(device_detail, "memory", <<>>),
         version |-> Get(device_detail, "version", <<>>),
         last_ip |-> Get(device_detail, "last_ip", p.ip),
         is_online |-> tracked /\ IsOnline(online_devices[device_id].last_heartbeat, t),
         last_heartbeat_time |->
             IF tracked THEN Strftime(online_devices[device_id].last_heartbeat)
             ELSE NEVER]

\* mutant of OnlineCount: every tracked device counted, online or not
OnlineCountTracked(devices) ==
    Cardinality({i \in DOMAIN devices : devices[i].last_heartbeat_time # NEVER})

\* len([d for d in devices if d['is_online']])
OnlineCount(devices) == Cardinality({i \in DOMAIN devices : devices[i].is_online})

\* mutant of DevicesResponse: the tracked devices that the registry does not
\* know are listed too
DevicesResponseWithTracked(all_peers, t) ==
    LET extra == DOMAIN online_devices \ {all_peers[i].id : i \in DOMAIN all_peers}
        order == CHOOSE o \in [1..Cardinality(extra) -> extra] :
                     \A i, j \in DOMAIN o : i # j => o[i] # o[j]
        listed == all_peers \o
                  [i \in DOMAIN order |->
                      [id |-> order[i], created_at |-> UNKNOWN,
                       ip |-> online_devices[order[i]].ip]]
        devices == [i \in DOMAIN listed |-> MergedView(listed[i], t)]
        online_count == OnlineCount(devices)
    IN  [op |-> "devices", status |-> 200,
         total |-> Len(devices),
         online |-> online_count,
         offline |-> Len(devices) - online_count,
         devices |-> devices]

\* the body get_devices returns for the registry entries all_peers
DevicesResponse(all_peers, t) ==
    LET devices == [i \in DOMAIN all_peers |-> MergedView(all_peers[i], t)]
        online_count == OnlineCount(devices)
    IN  [op |-> "devices", status |-> 200,
         total |-> Len(devices),
         online |-> online_count,
         offline |-> Len(devices) - online_count,
         devices |-> devices]

\* the counts the index page shows
IndexResponse(all_peers, t) ==
    LET online_devices_count ==
            Cardinality({i \in DOMAIN all_peers :
                /\ all_peers[i].id \in DOMAIN online_devices
                /\ IsOnline(online_devices[all_peers[i].id].last_heartbeat, t)})
    IN  [op |-> "index", status |-> 200,
         total |-> Len(all_peers),
         online |-> online_devices_count,
         offline |-> 0,
         devices |-> <<>>]

(***************************************************************************)
(* Handlers.                                                               *)
(***************************************************************************)
\* GET /api/devices
GetDevices ==
    /\ \E all_peers \in GetAllPeerIds : resp' = DevicesResponse(all_peers, now)
    /\ req' = Request("devices", <<>>, -1, "dict", EmptyDict)
    /\ UNCHANGED <<now, ticks, nreq, peer, online_devices, store, env, logged>>

\* GET /
Index ==
    /\ \E all_peers \in GetAllPeerIds : resp' = IndexResponse(all_peers, now)
    /\ req' = Request("index", <<>>, -1, "dict", EmptyDict)
    /\ UNCHANGED <<now, ticks, nreq, peer, online_devices, store, env, logged>>

\* mutant of RecordHeartbeat: a record that exists is left as it is
RecordHeartbeatKeepFirst(table, device_id, client_ip, body, t) ==
    IF device_id \in DOMAIN table THEN table
    ELSE (device_id :> [last_heartbeat |-> t, ip |-> client_ip, info |-> body]) @@ table

\* mutant of RecordHeartbeat: the records past the timeout swept on the way
RecordHeartbeatSweeps(table, device_id, client_ip, body, t) ==
    (device_id :> [last_heartbeat |-> t, ip |-> client_ip, info |-> body])
    @@ [id \in {i \in DOMAIN table :
                    t - table[i].last_heartbeat < OFFLINE_TIMEOUT_SECONDS} |-> table[id]]

\* mutant of RecordHeartbeat: an existing record updated field by field, the
\* info field left for later
RecordHeartbeatFieldwise(table, device_id, client_ip, body, t) ==
    IF device_id \in DOMAIN table
    THEN [table EXCEPT ![device_id].last_heartbeat = t, ![device_id].ip = client_ip]
    ELSE (device_id :> [last_heartbeat |-> t, ip |-> client_ip, info |-> body]) @@ table

\* online_devices[device_id] = {'last_heartbeat': now, 'ip': client_ip, 'info': body}
RecordHeartbeat(table, device_id, client_ip, body, t) ==
    (device_id :> [last_heartbeat |-> t, ip |-> client_ip, info |-> body]) @@ table

\* mutant of CameOnline: the check forgotten, every heartbeat a transition
CameOnlineAlways(table, device_id) == TRUE

\* if device_id not in online_devices
CameOnline(table, device_id) == device_id \notin DOMAIN table

\* logger.info("device online ..."), when the device comes online
LogCameOnline(lines, table, device_id) ==
    IF CameOnline(table, device_id)
    THEN (device_id :> (IF device_id \in DOMAIN lines THEN lines[device_id] ELSE 0) + 1)
         @@ lines
    ELSE lines

\* the heartbeat handler without its place among the requests in progress
HeartbeatBody(r) ==
    /\ req' = r
    /\ UNCHANGED <<now, ticks, peer, device_info, device_notes, faults>>
    /\ IF TooLarge(r, HEARTBEAT_BODY_LIMIT)
       THEN /\ resp' = Response("heartbeat", 413)
            /\ UNCHANGED <<online_devices, heartbeat_logs, log_seq, logged>>
       ELSE IF r.body.kind = "invalid"
       THEN /\ resp' = Response("heartbeat", 500)
            /\ UNCHANGED <<online_devices, heartbeat_logs, log_seq, logged>>
       ELSE IF r.body.kind # "dict"
       THEN /\ resp' = Response("heartbeat", 400)
            /\ UNCHANGED <<online_devices, heartbeat_logs, log_seq, logged>>
       ELSE LET body == r.body.d
                client_ip == GetClientIp(r)
                version == Get(body, "ver", JInt(0))
            IN  /\ resp' = Response("heartbeat", 200)
                /\ IF PyTruthy(Get(body, "id", JNull))
                   THEN LET device_id == Slice(PyStr(Get(body, "id", JNull)), ID_LEN)
                        IN  /\ \E log \in LogHeartbeat(heartbeat_logs, log_seq,
                                                       device_id, client_ip, version, now) :
                                  /\ heartbeat_logs' = log.rows
                                  /\ log_seq' = log.seq
                            /\ logged' = LogCameOnline(logged, online_devices, device_id)
                            /\ online_devices' =
                                  RecordHeartbeat(online_devices, device_id,
                                                  client_ip, body, now)
                   ELSE UNCHANGED <<online_devices, heartbeat_logs, log_seq, logged>>

\* POST /api/heartbeat
Heartbeat(r) ==
    /\ nreq < MaxRequests
    /\ nreq' = nreq + 1
    /\ UNCHANGED txn
    /\ HeartbeatBody(r)

\* POST /api/sysinfo
Sysinfo(r) ==
    /\ nreq < MaxRequests
    /\ nreq' = nreq + 1
    /\ req' = r
    /\ UNCHANGED <<now, ticks, peer, online_devices, heartbeat_logs, log_seq,
                   device_notes, env, logged>>
    /\ IF TooLarge(r, SYSINFO_BODY_LIMIT)
       THEN /\ resp' = Response("sysinfo", 413)
            /\ UNCHANGED device_info
       ELSE IF r.body.kind = "invalid"
       THEN /\ resp' = Response("sysinfo", 500)
            /\ UNCHANGED device_info
       ELSE IF r.body.kind # "dict"
       THEN /\ resp' = Response("sysinfo", 400)
            /\ UNCHANGED device_info
       ELSE /\ resp' = Response("sysinfo", 200)
            /\ device_info' = UpdateDeviceInfo(device_info, r.body.d, GetClientIp(r), now)

\* mutant of NoteIdMissing: the check forgotten
NoteIdNeverMissing(body) == FALSE

\* if not device_id
NoteIdMissing(body) == ~PyTruthy(Get(body, "device_id", JNull))

\* POST /api/device/note. A body that is not JSON makes request.json() raise, one
\* that is not an object makes body.get raise: both end in the last except clause.
UpdateDeviceNoteRequest(r) ==
    /\ nreq < MaxRequests
    /\ nreq' = nreq + 1
    /\ req' = r
    /\ UNCHANGED <<now, ticks, peer, online_devices, device_info, heartbeat_logs,
                   log_seq, env, logged>>
    /\ IF r.body.kind # "dict"
       THEN /\ resp' = Response("note", 500)
            /\ UNCHANGED device_notes
       ELSE IF NoteIdMissing(r.body.d)
       THEN /\ resp' = Response("note", 400)
            /\ UNCHANGED device_notes
       ELSE /\ resp' = Response("note", 200)
            /\ device_notes' = UpdateDeviceNote(device_notes,
                                                Get(r.body.d, "device_id", JNull),
                                                Get(r.body.d, "note", JStr(<<>>)),
                                                now)

(***************************************************************************)
(* log_heartbeat statement by statement. Each call opens a connection of   *)
(* its own; sqlite3 begins a transaction at the INSERT and holds the       *)
(* database's write lock until conn.commit() or until the connection is    *)
(* dropped. heartbeat_logs and log_seq are the committed table, which is   *)
(* what every other connection reads.                                      *)
(***************************************************************************)
Connections == {"c1", "c2"}

NoTxn ==
    [pc |-> "idle", rows |-> <<>>, seq |-> 0, r |-> NoRequest, found |-> FALSE, at |-> 0]

WriteLockFree(c) == \A o \in Connections \ {c} : txn[o].pc = "idle"

\* mutant of Visible: the other connections read what is not committed yet
VisibleUncommitted(committed, working) == working

\* the table the other connections read while a transaction is open
Visible(committed, working) == committed

\* the request reaches db_manager.log_heartbeat
LogsHeartbeat(r) ==
    /\ ~TooLarge(r, HEARTBEAT_BODY_LIMIT)
    /\ r.body.kind = "dict"
    /\ PyTruthy(Get(r.body.d, "id", JNull))
    /\ ~LogVersionRaises(Get(r.body.d, "ver", JInt(0)))

\* the rest of the heartbeat handler, once log_heartbeat has returned
HeartbeatReturns(r) ==
    /\ req' = r
    /\ resp' = Response("heartbeat", 200)
    /\ logged' = LogCameOnline(logged, online_devices,
                               Slice(PyStr(Get(r.body.d, "id", JNull)), ID_LEN))
    /\ online_devices' =
           RecordHeartbeat(online_devices,
                           Slice(PyStr(Get(r.body.d, "id", JNull)), ID_LEN),
                           GetClientIp(r), r.body.d, now)

\* sqlite3.connect and the INSERT, on connection c
LogInsert(c, r) ==
    /\ nreq < MaxRequests
    /\ nreq' = nreq + 1
    /\ LogsHeartbeat(r)
    /\ txn[c].pc = "idle"
    /\ WriteLockFree(c)
    /\ LET device_id == Slice(PyStr(Get(r.body.d, "id", JNull)), ID_LEN)
           inserted == Append(heartbeat_logs,
                              LogRow(log_seq + 1, device_id, GetClientIp(r),
                                     Get(r.body.d, "ver", JInt(0)), now))
       IN  /\ txn' = [txn EXCEPT ![c] = [pc |-> "inserted", rows |-> inserted,
                                         seq |-> log_seq + 1, r |-> r,
                                         found |-> FALSE, at |-> now]]
           /\ heartbeat_logs' = Visible(heartbeat_logs, inserted)
    /\ UNCHANGED <<now, ticks, peer, online_devices, device_info, log_seq,
                   device_notes, req, resp, faults, logged>>

\* the INSERT while another connection holds the write lock: sqlite3 raises
\* OperationalError (database is locked), log_heartbeat logs it and returns
LogBusy(c, r) ==
    /\ nreq < MaxRequests
    /\ nreq' = nreq + 1
    /\ LogsHeartbeat(r)
    /\ txn[c].pc = "idle"
    /\ ~WriteLockFree(c)
    /\ HeartbeatReturns(r)
    /\ UNCHANGED <<now, ticks, peer, store, env>>

\* the DELETE, on connection c
LogDelete(c) ==
    /\ txn[c].pc = "inserted"
    /\ \E keep \in NewestIds(txn[c].rows, LOG_RETENTION) :
           LET trimmed == DeleteNotIn(txn[c].rows, keep)
           IN  /\ txn' = [txn EXCEPT ![c].pc = "trimmed", ![c].rows = trimmed]
               /\ heartbeat_logs' = Visible(heartbeat_logs, trimmed)
    /\ UNCHANGED <<now, ticks, nreq, peer, online_devices, device_info, log_seq,
                   device_notes, req, resp, faults, logged>>

\* conn.commit() and conn.close(), on connection c
LogCommit(c) ==
    /\ txn[c].pc = "trimmed"
    /\ heartbeat_logs' = txn[c].rows
    /\ log_seq' = txn[c].seq
    /\ txn' = [txn EXCEPT ![c] = NoTxn]
    /\ HeartbeatReturns(txn[c].r)
    /\ UNCHANGED <<now, ticks, nreq, peer, device_info, device_notes, faults>>

\* mutant of LogAbort: log_heartbeat lets the exception through, the handler's
\* own except clause answers 500 and the presence update is not reached
LogAbortStops(c) ==
    /\ txn[c].pc \in {"inserted", "trimmed"}
    /\ heartbeat_logs' = Rollback(heartbeat_logs, txn[c].rows)
    /\ txn' = [txn EXCEPT ![c] = NoTxn]
    /\ req' = txn[c].r
    /\ resp' = Response("heartbeat", 500)
    /\ UNCHANGED <<now, ticks, nreq, peer, online_devices, device_info, log_seq,
                   device_notes, faults, logged>>

\* a statement of the open transaction raises: the except clause, the
\* connection dropped, the transaction rolled back
LogAbort(c) ==
    /\ txn[c].pc \in {"inserted", "trimmed"}
    /\ heartbeat_logs' = Rollback(heartbeat_logs, txn[c].rows)
    /\ txn' = [txn EXCEPT ![c] = NoTxn]
    /\ HeartbeatReturns(txn[c].r)
    /\ UNCHANGED <<now, ticks, nreq, peer, device_info, log_seq, device_notes, faults>>

(***************************************************************************)
(* The heartbeat handler as a coroutine: it is suspended once, at          *)
(* await request.json(), and runs from there to its return without         *)
(* yielding to another handler.                                            *)
(***************************************************************************)
\* up to await request.json(): the request within the size limit is read
HeartbeatReceive(c, r) ==
    /\ nreq < MaxRequests
    /\ nreq' = nreq + 1
    /\ txn[c].pc = "idle"
    /\ ~TooLarge(r, HEARTBEAT_BODY_LIMIT)
    /\ txn' = [txn EXCEPT ![c] = [NoTxn EXCEPT !.pc = "received", !.r = r]]
    /\ UNCHANGED <<now, ticks, peer, online_devices, store, req, resp, faults, logged>>

\* from await request.json() to the return
HeartbeatResume(c) ==
    /\ txn[c].pc = "received"
    /\ txn' = [txn EXCEPT ![c] = NoTxn]
    /\ UNCHANGED nreq
    /\ HeartbeatBody(txn[c].r)

(***************************************************************************)
(* update_device_info statement by statement, on connections that run at   *)
(* the same time: the SELECT reads the committed table outside of any      *)
(* transaction, the UPDATE or INSERT and conn.commit() are one transaction *)
(* under the write lock.                                                   *)
(***************************************************************************)
\* mutant of InsertRow: INSERT OR REPLACE, or a table without primary key
InsertOrReplaceRow(table, id, row) == (id :> row) @@ table

\* INSERT INTO device_info: id is the primary key, a second row of the same id
\* raises IntegrityError, which update_device_info catches
InsertRow(table, id, row) ==
    IF id \in DOMAIN table THEN table ELSE (id :> row) @@ table

\* UPDATE device_info ... WHERE id = ?
UpdateRow(table, id, d, ip, t) ==
    IF id \in DOMAIN table
    THEN [table EXCEPT ![id] = TelemetryRow(id, d, ip, @.created_at, t)]
    ELSE table

\* the call reaches its SELECT: now = datetime.now(), the row looked up
UpsertSelect(c, r) ==
    /\ nreq < MaxRequests
    /\ nreq' = nreq + 1
    /\ txn[c].pc = "idle"
    /\ ~TooLarge(r, SYSINFO_BODY_LIMIT)
    /\ r.body.kind = "dict"
    /\ PyTruthy(Get(r.body.d, "id", JNull))
    /\ txn' = [txn EXCEPT ![c] =
                  [NoTxn EXCEPT !.pc = "selected", !.r = r, !.at = now,
                                !.found = PyStr(Get(r.body.d, "id", JNull))
                                              \in DOMAIN device_info]]
    /\ UNCHANGED <<now, ticks, peer, online_devices, store, req, resp, faults, logged>>

\* the UPDATE or the INSERT that the SELECT decided on, the commit, the response
UpsertWrite(c) ==
    /\ txn[c].pc = "selected"
    /\ LET r == txn[c].r
           id == PyStr(Get(r.body.d, "id", JNull))
       IN  /\ device_info' =
                  IF txn[c].found
                  THEN UpdateRow(device_info, id, r.body.d, GetClientIp(r), txn[c].at)
                  ELSE InsertRow(device_info, id,
                                 TelemetryRow(id, r.body.d, GetClientIp(r),
                                              txn[c].at, txn[c].at))
           /\ req' = r
           /\ resp' = Response("sysinfo", 200)
    /\ txn' = [txn EXCEPT ![c] = NoTxn]
    /\ UNCHANGED <<now, ticks, nreq, peer, online_devices, heartbeat_logs, log_seq,
                   device_notes, faults, logged>>

(***************************************************************************)
(* The health probe and the restart of the process.                        *)
(***************************************************************************)
\* the body of GET /health; the monitor database exists since init_database
HealthResponse ==
    [op |-> "health", status |-> 200,
     rustdesk_db_exists |-> peer.exists,
     monitor_db_exists |-> TRUE,
     online_devices |-> Cardinality(DOMAIN online_devices),
     offline_timeout |-> OFFLINE_TIMEOUT_SECONDS]

\* GET /health
HealthCheck ==
    /\ resp' = HealthResponse
    /\ req' = Request("health", <<>>, -1, "dict", EmptyDict)
    /\ UNCHANGED <<now, ticks, nreq, peer, online_devices, store, env, logged>>

\* mutant of Restarted: the presence table kept over the restart
RestartedKeeps(table) == table

\* online_devices = {} when the module is loaded
Restarted(table) == EmptyDict

\* the process is stopped and started again: the module's state is built anew,
\* init_database finds its tables (CREATE TABLE IF NOT EXISTS)
Restart ==
    /\ online_devices' = Restarted(online_devices)
    /\ logged' = [id \in {} |-> 0]
    /\ txn' = [c \in Connections |-> NoTxn]
    /\ req' = NoRequest
    /\ resp' = Response("none", 0)
    /\ UNCHANGED <<now, ticks, nreq, peer, store, faults>>

\* the clock advances by d seconds while a tracked device is within the timeout
TickOn(d) ==
    /\ \E id \in DOMAIN online_devices :
           now - online_devices[id].last_heartbeat < OFFLINE_TIMEOUT_SECONDS
    /\ now' = now + d
    /\ UNCHANGED <<ticks, nreq, peer, online_devices, store, req, resp, env, logged>>

\* the storage turns to the condition F
StorageFault(F) ==
    /\ faults # F
    /\ faults' = F
    /\ UNCHANGED <<now, ticks, nreq, peer, online_devices, store, req, resp, txn, logged>>

\* the clock advances by d seconds
Tick(d) ==
    /\ ticks < MaxTicks
    /\ ticks' = ticks + 1
    /\ now' = now + d
    /\ UNCHANGED <<nreq, peer, online_devices, store, req, resp, env, logged>>

(***************************************************************************)
(* Inputs.                                                                 *)
(***************************************************************************)
DevA == <<"A">>
DevB == <<"B">>
DevC == <<"C">>
DevP == <<"P">>
DevX == <<"X">>      \* never in the registry

IpReg == <<"1", "0", ".", "0", ".", "0", ".", "1">>
IpHb == <<"1", "0", ".", "0", ".", "0", ".", "2">>
IpSys == <<"1", "0", ".", "0", ".", "0", ".", "3">>

Dict1(k, v) == [x \in {k} |-> v]

InfoNull == [kind |-> "null", d |-> EmptyDict]
InfoInvalid == [kind |-> "invalid", d |-> EmptyDict]
InfoNonDict == [kind |-> "nondict", d |-> EmptyDict]
InfoDict(d) == [kind |-> "dict", d |-> d]

RowA == [id |-> DevA, created_at |-> 10, info |-> InfoDict(Dict1("ip", JStr(IpReg)))]
RowB == [id |-> DevB, created_at |-> 20, info |-> InfoNull]
RowC == [id |-> DevC, created_at |-> 20, info |-> InfoInvalid]
RowP == [id |-> DevP, created_at |-> 30, info |-> InfoNonDict]

\* registries whose every info column is one the identity query reads
Registries ==
    {[exists |-> FALSE, rows |-> {}],
     [exists |-> TRUE, rows |-> {RowA, RowB}],
     [exists |-> TRUE, rows |-> {RowA, RowB, RowC}]}

\* and one with an info column that is JSON but no object
AllRegistries == Registries \cup {[exists |-> TRUE, rows |-> {RowA, RowB, RowP}]}

HbBody(id) == Dict1("id", id)

HeartbeatRequests ==
    {Request("heartbeat", IpHb, 20, "dict", HbBody(JStr(DevA))),
     Request("heartbeat", IpHb, 20, "dict", HbBody(JStr(DevB))),
     Request("heartbeat", IpHb, 20, "dict", HbBody(JStr(DevX))),
     Request("heartbeat", IpHb, 20, "dict", EmptyDict)}

SysBody(id, text) ==
    [k \in {"id", "hostname", "username", "os", "cpu", "memory", "version", "uuid"} |->
        IF k = "id" THEN id ELSE JStr(text)]

SysinfoRequests ==
    {Request("sysinfo", IpSys, 200, "dict", SysBody(JStr(DevA), <<"h", "1">>)),
     Request("sysinfo", IpSys, 200, "dict", SysBody(JStr(DevX), <<"h", "2">>)),
     Request("sysinfo", IpSys, 200, "dict", Dict1("hostname", JStr(<<"h", "3">>)))}

TickSteps == {OFFLINE_TIMEOUT_SECONDS - 1, OFFLINE_TIMEOUT_SECONDS, OFFLINE_TIMEOUT_SECONDS + 1}

(***************************************************************************)
(* The program: a fresh monitor database, an empty presence table.         *)
(***************************************************************************)
InitProcess ==
    /\ now = StartTime
    /\ ticks = 0
    /\ nreq = 0
    /\ online_devices = EmptyDict
    /\ req = NoRequest
    /\ resp = Response("none", 0)
    /\ faults = {}
    /\ txn = [c \in Connections |-> NoTxn]
    /\ logged = [id \in {} |-> 0]

InitFreshStore ==
    /\ device_info = EmptyDict
    /\ heartbeat_logs = <<>>
    /\ log_seq = 0
    /\ device_notes = EmptyDict

Init ==
    /\ InitProcess
    /\ InitFreshStore
    /\ peer \in AllRegistries

Next ==
    \/ \E d \in TickSteps : Tick(d)
    \/ \E r \in HeartbeatRequests : Heartbeat(r)
    \/ \E r \in SysinfoRequests : Sysinfo(r)
    \/ GetDevices
    \/ Index

Spec == Init /\ [][Next]_vars

(***************************************************************************)
(* The heartbeat log at its retention bound. The monitor database outlives *)
(* the process: the log starts with the rows that earlier lifetimes left,  *)
(* written in pairs that read the same clock value.                        *)
(***************************************************************************)
PrefillRow(i) ==
    [id |-> i,
     device_id |-> IF i % 2 = 0 THEN DevA ELSE DevB,
     ip_address |-> IpHb,
     timestamp |-> (i + 1) \div 2,
     version |-> JNull]

InitLog ==
    /\ InitProcess
    /\ peer = [exists |-> TRUE, rows |-> {RowA, RowB}]
    /\ device_info = EmptyDict
    /\ device_notes = EmptyDict
    /\ heartbeat_logs = [i \in 1..PrefillLen |-> PrefillRow(i)]
    /\ log_seq = PrefillLen

NextLog ==
    \/ \E d \in TickSteps : Tick(d)
    \/ \E r \in HeartbeatRequests : Heartbeat(r)

SpecLog == InitLog /\ [][NextLog]_vars

(***************************************************************************)
(* System-info reports with texts at and over the column bounds.           *)
(***************************************************************************)
TelemetryFields == {"hostname", "username", "os", "cpu", "memory", "version", "uuid"}

FieldBound(k) ==
    CASE k = "hostname" -> HOSTNAME_LEN
      [] k = "username" -> USERNAME_LEN
      [] k = "os" -> OS_LEN
      [] k = "cpu" -> CPU_LEN
      [] k = "memory" -> MEMORY_LEN
      [] k = "version" -> VERSION_LEN
      [] k = "uuid" -> UUID_LEN

\* a text of n characters, and one of n + 1, each ending in a character of its own
AtText(n) == Rep("a", n - 1) \o <<"z">>
OverText(n) == Rep("a", n) \o <<"z">>

BodyAt(id) ==
    [k \in TelemetryFields \cup {"id"} |->
        IF k = "id" THEN id ELSE JStr(AtText(FieldBound(k)))]
BodyOver(id) ==
    [k \in TelemetryFields \cup {"id"} |->
        IF k = "id" THEN id ELSE JStr(OverText(FieldBound(k)))]

TelemetryRequests ==
    {Request("sysinfo", IpSys, 200, "dict", SysBody(JStr(DevA), <<"h", "1">>)),
     Request("sysinfo", IpSys, 4000, "dict", BodyAt(JStr(DevA))),
     Request("sysinfo", OverText(IP_LEN), 4000, "dict", BodyOver(JStr(DevA))),
     Request("sysinfo", IpSys, 20, "dict", Dict1("id", JStr(DevA))),
     Request("sysinfo", IpSys, 200, "dict", SysBody(JInt(7), <<"h", "7">>)),
     Request("sysinfo", IpSys, 200, "dict", SysBody(JStr(<<>>), <<"h", "2">>)),
     Request("sysinfo", IpSys, 200, "dict", SysBody(JNull, <<"h", "3">>)),
     Request("sysinfo", IpSys, 200, "dict", Dict1("hostname", JStr(<<"h", "4">>)))}

InitTelemetry ==
    /\ InitProcess
    /\ InitFreshStore
    /\ peer = [exists |-> TRUE, rows |-> {RowA, RowB}]

NextTelemetry ==
    \/ \E d \in TickSteps : Tick(d)
    \/ \E r \in TelemetryRequests : Sysinfo(r)

SpecTelemetry == InitTelemetry /\ [][NextTelemetry]_vars

(***************************************************************************)
(* Notes set through POST /api/device/note and read back by the listing.   *)
(***************************************************************************)
NoteBody(device_id, note) ==
    [k \in {"device_id", "note"} |-> IF k = "device_id" THEN device_id ELSE note]

Note1 == <<"n", "1">>
Note2 == <<"n", "2">>

\* an id one character longer than the key that update_device_note writes
LongId == OverText(ID_LEN)

NoteRequests ==
    {Request("note", IpReg, 40, "dict", NoteBody(JStr(DevA), JStr(Note1))),
     Request("note", IpReg, 40, "dict", NoteBody(JStr(DevA), JStr(<<>>))),
     Request("note", IpReg, 600, "dict", NoteBody(JStr(DevA), JStr(AtText(NOTE_LEN)))),
     Request("note", IpReg, 600, "dict", NoteBody(JStr(DevA), JStr(OverText(NOTE_LEN)))),
     Request("note", IpReg, 40, "dict", NoteBody(JStr(DevB), JStr(Note2))),
     Request("note", IpReg, 300, "dict", NoteBody(JStr(LongId), JStr(Note1))),
     Request("note", IpReg, 20, "dict", Dict1("device_id", JStr(DevB))),
     Request("note", IpReg, 20, "dict", Dict1("note", JStr(Note1))),
     Request("note", IpReg, 40, "dict", NoteBody(JStr(<<>>), JStr(Note1))),
     Request("note", IpReg, 40, "dict", NoteBody(JNull, JStr(Note2)))}

InitNote ==
    /\ InitProcess
    /\ InitFreshStore
    /\ peer = [exists |-> TRUE, rows |-> {RowA, RowB}]

NextNote ==
    \/ \E d \in TickSteps : Tick(d)
    \/ \E r \in NoteRequests : UpdateDeviceNoteRequest(r)
    \/ GetDevices

SpecNote == InitNote /\ [][NextNote]_vars

(***************************************************************************)
(* Heartbeats of every kind of id and version.                             *)
(***************************************************************************)
HbVerBody(id, ver) == [k \in {"id", "ver"} |-> IF k = "id" THEN id ELSE ver]

IngestHeartbeats ==
    {Request("heartbeat", IpHb, 30, "dict", HbVerBody(JStr(DevA), JInt(1))),
     Request("heartbeat", IpSys, 30, "dict", HbVerBody(JStr(DevA), JInt(2))),
     Request("heartbeat", IpHb, 30, "dict", HbVerBody(JStr(DevX), JStr(<<"1", "2">>))),
     Request("heartbeat", IpHb, 30, "dict", HbVerBody(JStr(DevB), JStr(<<"a", "b">>))),
     Request("heartbeat", IpHb, 30, "dict", HbVerBody(JStr(DevB), JInt(-1))),
     Request("heartbeat", IpHb, 30, "dict", HbVerBody(JStr(DevB), JStr(<<SuperscriptTwo>>))),
     Request("heartbeat", IpHb, 30, "dict", HbVerBody(JStr(DevA), JInt(0))),
     Request("heartbeat", IpHb, 30, "dict", HbVerBody(JStr(DevA), JStr(<<"0">>))),
     Request("heartbeat", IpHb, 20, "dict", HbBody(JStr(DevA))),
     Request("heartbeat", IpHb, 20, "dict", Dict1("ver", JInt(1))),
     Request("heartbeat", IpHb, 20, "dict", HbVerBody(JStr(<<>>), JInt(1))),
     Request("heartbeat", IpHb, 20, "dict", HbVerBody(JNull, JInt(1)))}

InitIngest ==
    /\ InitProcess
    /\ InitFreshStore
    /\ peer = [exists |-> TRUE, rows |-> {RowA, RowB}]

NextIngest ==
    \/ \E d \in TickSteps : Tick(d)
    \/ \E r \in IngestHeartbeats : Heartbeat(r)

SpecIngest == InitIngest /\ [][NextIngest]_vars

(***************************************************************************)
(* Requests over the size limits and requests of a bad shape.              *)
(***************************************************************************)
ShapeHeartbeats ==
    {Request("heartbeat", IpHb, 20, "dict", HbBody(JStr(DevA))),
     Request("heartbeat", IpHb, HEARTBEAT_BODY_LIMIT, "dict", HbBody(JStr(DevA))),
     Request("heartbeat", IpHb, HEARTBEAT_BODY_LIMIT + 1, "dict", HbBody(JStr(DevB))),
     ChunkedRequest("heartbeat", IpHb, HEARTBEAT_BODY_LIMIT + 1, "dict", HbBody(JStr(DevB))),
     Request("heartbeat", IpHb, 20, "invalid", EmptyDict),
     Request("heartbeat", IpHb, 20, "nondict", EmptyDict)}

ShapeSysinfos ==
    {Request("sysinfo", IpSys, 200, "dict", SysBody(JStr(DevA), <<"h", "1">>)),
     Request("sysinfo", IpSys, SYSINFO_BODY_LIMIT + 1, "dict", SysBody(JStr(DevB), <<"h", "2">>)),
     ChunkedRequest("sysinfo", IpSys, SYSINFO_BODY_LIMIT + 1, "dict",
                    SysBody(JStr(DevB), <<"h", "2">>)),
     Request("sysinfo", IpSys, 200, "invalid", EmptyDict),
     Request("sysinfo", IpSys, 200, "nondict", EmptyDict)}

ShapeNotes ==
    {Request("note", IpReg, 40, "dict", NoteBody(JStr(DevA), JStr(Note1))),
     Request("note", IpReg, 40, "invalid", EmptyDict),
     Request("note", IpReg, 40, "nondict", EmptyDict)}

InitShape ==
    /\ InitProcess
    /\ InitFreshStore
    /\ peer = [exists |-> TRUE, rows |-> {RowA, RowB}]

NextShape ==
    \/ \E d \in TickSteps : Tick(d)
    \/ \E r \in ShapeHeartbeats : Heartbeat(r)
    \/ \E r \in ShapeSysinfos : Sysinfo(r)
    \/ \E r \in ShapeNotes : UpdateDeviceNoteRequest(r)

SpecShape == InitShape /\ [][NextShape]_vars

(***************************************************************************)
(* The handlers over a storage that fails.                                 *)
(***************************************************************************)
NoId == <<>>

FaultSets ==
    {{},
     {Fault("log_heartbeat", "connect", NoId)},
     {Fault("log_heartbeat", "delete", NoId)},
     {Fault("log_heartbeat", "commit", NoId)},
     {Fault("update_device_info", "connect", NoId)},
     {Fault("update_device_info", "commit", NoId)},
     {Fault("update_device_note", "connect", NoId)},
     {Fault("update_device_note", "commit", NoId)},
     {Fault("get_device_info", "execute", DevA)},
     {Fault("get_device_note", "execute", DevA)},
     {Fault("get_device_info", "execute", DevA), Fault("get_device_note", "execute", DevB)}}

FaultHeartbeats ==
    {Request("heartbeat", IpHb, 20, "dict", HbBody(JStr(DevA)))}

FaultSysinfos ==
    {Request("sysinfo", IpSys, 200, "dict", SysBody(JStr(DevA), <<"h", "1">>)),
     Request("sysinfo", IpSys, 200, "dict", SysBody(JStr(DevB), <<"h", "2">>))}

FaultNotes ==
    {Request("note", IpReg, 40, "dict", NoteBody(JStr(DevA), JStr(Note1))),
     Request("note", IpReg, 40, "dict", NoteBody(JStr(DevB), JStr(Note2)))}

InitFault ==
    /\ InitProcess
    /\ InitFreshStore
    /\ peer \in {[exists |-> TRUE, rows |-> {RowA, RowB}],
                 [exists |-> TRUE, rows |-> {RowA, RowB, RowP}]}

NextFault ==
    \/ \E F \in FaultSets : StorageFault(F)
    \/ \E r \in FaultHeartbeats : Heartbeat(r)
    \/ \E r \in FaultSysinfos : Sysinfo(r)
    \/ \E r \in FaultNotes : UpdateDeviceNoteRequest(r)
    \/ GetDevices

SpecFault == InitFault /\ [][NextFault]_vars

(***************************************************************************)
(* Two log_heartbeat calls in progress at once, on a log at its bound.     *)
(***************************************************************************)
InitTxn ==
    /\ InitProcess
    /\ peer = [exists |-> TRUE, rows |-> {RowA, RowB}]
    /\ device_info = EmptyDict
    /\ device_notes = EmptyDict
    /\ heartbeat_logs = [i \in 1..PrefillLen |-> PrefillRow(i)]
    /\ log_seq = PrefillLen

TxnRequests ==
    {Request("heartbeat", IpHb, 20, "dict", HbBody(JStr(DevA))),
     Request("heartbeat", IpHb, 20, "dict", HbBody(JStr(DevB)))}

NextTxn ==
    \/ Tick(OFFLINE_TIMEOUT_SECONDS)
    \/ \E c \in Connections, r \in TxnRequests : LogInsert(c, r)
    \/ \E c \in Connections, r \in TxnRequests : LogBusy(c, r)
    \/ \E c \in Connections : LogDelete(c)
    \/ \E c \in Connections : LogCommit(c)
    \/ \E c \in Connections : LogAbort(c)

SpecTxn == InitTxn /\ [][NextTxn]_vars

(***************************************************************************)
(* The presence table under every handler, the probe and the restart.      *)
(***************************************************************************)
PresenceHeartbeats ==
    {Request("heartbeat", IpHb, 20, "dict", HbBody(JStr(DevA))),
     Request("heartbeat", IpHb, 20, "dict", HbBody(JStr(DevX))),
     Request("heartbeat", IpHb, 20, "dict", EmptyDict)}

PresenceSysinfos ==
    {Request("sysinfo", IpSys, 200, "dict", SysBody(JStr(DevB), <<"h", "2">>))}

PresenceNotes ==
    {Request("note", IpReg, 40, "dict", NoteBody(JStr(DevB), JStr(Note2)))}

InitPresence ==
    /\ InitProcess
    /\ InitFreshStore
    /\ peer \in {[exists |-> FALSE, rows |-> {}],
                 [exists |-> TRUE, rows |-> {RowA, RowB}]}

NextPresence ==
    \/ \E d \in TickSteps : Tick(d)
    \/ \E r \in PresenceHeartbeats : Heartbeat(r)
    \/ \E r \in PresenceSysinfos : Sysinfo(r)
    \/ \E r \in PresenceNotes : UpdateDeviceNoteRequest(r)
    \/ GetDevices
    \/ Index
    \/ HealthCheck
    \/ Restart

SpecPresence == InitPresence /\ [][NextPresence]_vars

(***************************************************************************)
(* The clock never stops while a device is within the timeout.             *)
(***************************************************************************)
LiveHeartbeats ==
    {Request("heartbeat", IpHb, 20, "dict", HbBody(JStr(DevA))),
     Request("heartbeat", IpHb, 20, "dict", HbBody(JStr(DevB)))}

InitLive ==
    /\ InitProcess
    /\ InitFreshStore
    /\ peer = [exists |-> TRUE, rows |-> {RowA, RowB}]

NextLive ==
    \/ \E d \in TickSteps : TickOn(d)
    \/ \E r \in LiveHeartbeats : Heartbeat(r)
    \/ GetDevices

SpecLive == InitLive /\ [][NextLive]_vars /\ WF_vars(\E d \in TickSteps : TickOn(d))

(***************************************************************************)
(* Heartbeats of one device in progress at the same time.                  *)
(***************************************************************************)
ConcHeartbeats ==
    {Request("heartbeat", IpHb, 30, "dict", HbVerBody(JStr(DevA), JInt(1))),
     Request("heartbeat", IpSys, 30, "dict", HbVerBody(JStr(DevA), JInt(2))),
     Request("heartbeat", IpHb, 30, "dict", HbVerBody(JStr(DevB), JInt(1)))}

InitConc ==
    /\ InitProcess
    /\ InitFreshStore
    /\ peer = [exists |-> TRUE, rows |-> {RowA, RowB}]

NextConc ==
    \/ \E d \in TickSteps : Tick(d)
    \/ \E c \in Connections, r \in ConcHeartbeats : HeartbeatReceive(c, r)
    \/ \E c \in Connections : HeartbeatResume(c)
    \/ GetDevices
    \/ Index

SpecConc == InitConc /\ [][NextConc]_vars

(***************************************************************************)
(* update_device_info calls for one device in progress at the same time.   *)
(***************************************************************************)
UpsertRequests ==
    {Request("sysinfo", IpSys, 200, "dict", SysBody(JStr(DevA), <<"h", "1">>)),
     Request("sysinfo", IpHb, 200, "dict", SysBody(JStr(DevA), <<"h", "2">>)),
     Request("sysinfo", IpSys, 200, "dict", SysBody(JStr(DevB), <<"h", "3">>))}

InitUpsert ==
    /\ InitProcess
    /\ InitFreshStore
    /\ peer = [exists |-> TRUE, rows |-> {RowA, RowB}]

NextUpsert ==
    \/ \E d \in TickSteps : Tick(d)
    \/ \E c \in Connections, r \in UpsertRequests : UpsertSelect(c, r)
    \/ \E c \in Connections : UpsertWrite(c)

SpecUpsert == InitUpsert /\ [][NextUpsert]_vars

(***************************************************************************)
(* Calls repeated on a log at its bound whose two oldest rows are each the *)
(* only one of their device.                                               *)
(***************************************************************************)
RetryRow(i) ==
    [PrefillRow(i) EXCEPT !.timestamp = i,
                          !.device_id = IF i = 1 THEN DevC
                                        ELSE IF i = 2 THEN DevP ELSE @]

RetryHeartbeats ==
    {Request("heartbeat", IpHb, 20, "dict", HbBody(JStr(DevA)))}

RetrySysinfos ==
    {Request("sysinfo", IpSys, 200, "dict", SysBody(JStr(DevA), <<"h", "1">>))}

RetryNotes ==
    {Request("note", IpReg, 40, "dict", NoteBody(JStr(DevA), JStr(Note1)))}

InitRetry ==
    /\ InitProcess
    /\ peer = [exists |-> TRUE, rows |-> {RowA, RowB}]
    /\ device_info = EmptyDict
    /\ device_notes = EmptyDict
    /\ heartbeat_logs = [i \in 1..PrefillLen |-> RetryRow(i)]
    /\ log_seq = PrefillLen

NextRetry ==
    \/ \E d \in TickSteps : Tick(d)
    \/ \E r \in RetryHeartbeats : Heartbeat(r)
    \/ \E r \in RetrySysinfos : Sysinfo(r)
    \/ \E r \in RetryNotes : UpdateDeviceNoteRequest(r)

SpecRetry == InitRetry /\ [][NextRetry]_vars

(***************************************************************************)
(* Heartbeats, reports and the registry, each with an address of its own.  *)
(***************************************************************************)
MergeHeartbeats ==
    {Request("heartbeat", IpHb, 20, "dict", HbBody(JStr(DevA))),
     Request("heartbeat", IpHb, 20, "dict", HbBody(JStr(DevB)))}

MergeSysinfos ==
    {Request("sysinfo", IpSys, 200, "dict", SysBody(JStr(DevA), <<"h", "1">>)),
     Request("sysinfo", IpSys, 200, "dict", SysBody(JStr(DevC), <<"h", "2">>))}

InitMerge ==
    /\ InitProcess
    /\ InitFreshStore
    /\ peer = [exists |-> TRUE, rows |-> {RowA, RowB, RowC}]

NextMerge ==
    \/ \E d \in TickSteps : Tick(d)
    \/ \E r \in MergeHeartbeats : Heartbeat(r)
    \/ \E r \in MergeSysinfos : Sysinfo(r)
    \/ GetDevices

SpecMerge == InitMerge /\ [][NextMerge]_vars

(***************************************************************************)
(* Properties.                                                             *)
(***************************************************************************)
RegistryIds == {row.id : row \in peer.rows}

\* the step handles a heartbeat / a system-info request
HeartbeatStep == nreq' = nreq + 1 /\ req'.op = "heartbeat"
SysinfoStep == nreq' = nreq + 1 /\ req'.op = "sysinfo"

\* the request reached the handler's body: within the size limit, a JSON object
Parsed(r, limit) == ~TooLarge(r, limit) /\ r.body.kind = "dict"

HasId(r) == PyTruthy(Get(r.body.d, "id", JNull))
IdOf(r) == PyStr(Get(r.body.d, "id", JNull))

\* C1: every accepted heartbeat of device D records the current time T as D's
\* last heartbeat; list_devices at time T + delta reports a listed device online
\* when delta < OFFLINE_TIMEOUT_SECONDS and offline when delta >=
\* OFFLINE_TIMEOUT_SECONDS (so also at delta = OFFLINE_TIMEOUT_SECONDS), and a
\* listed device with no presence record offline; the index page counts the same.
C1_OnlineIffWithinTimeout ==
    [][/\ (HeartbeatStep /\ Parsed(req', HEARTBEAT_BODY_LIMIT) /\ HasId(req')) =>
              online_devices'[Slice(IdOf(req'), ID_LEN)].last_heartbeat = now
       /\ (req'.op = "devices" /\ GetDevices) =>
              \A i \in DOMAIN resp'.devices :
                  LET e == resp'.devices[i]
                  IN  IF e.id \in DOMAIN online_devices
                      THEN LET delta == now - online_devices[e.id].last_heartbeat
                           IN  /\ delta < OFFLINE_TIMEOUT_SECONDS => e.is_online
                               /\ delta >= OFFLINE_TIMEOUT_SECONDS => ~e.is_online
                      ELSE ~e.is_online
       /\ (req'.op = "index" /\ Index /\ resp'.total = Cardinality(peer.rows)) =>
              resp'.online =
                  Cardinality({id \in RegistryIds \cap DOMAIN online_devices :
                      now - online_devices[id].last_heartbeat < OFFLINE_TIMEOUT_SECONDS})
      ]_vars

\* a listing taken exactly OFFLINE_TIMEOUT_SECONDS after a device's heartbeat
C1_Witness ==
    /\ req.op = "devices"
    /\ \E i \in DOMAIN resp.devices :
           /\ resp.devices[i].id \in DOMAIN online_devices
           /\ now - online_devices[resp.devices[i].id].last_heartbeat = OFFLINE_TIMEOUT_SECONDS
           /\ ~resp.devices[i].is_online

\* C2: the heartbeat log never holds more than LOG_RETENTION rows, all devices
\* together.
C2_LogBounded == Len(heartbeat_logs) <= LOG_RETENTION

\* the log is full after an append that had to trim, with rows of two devices
C2_Witness ==
    /\ Len(heartbeat_logs) = LOG_RETENTION
    /\ log_seq > LOG_RETENTION
    /\ \E i, j \in DOMAIN heartbeat_logs :
           heartbeat_logs[i].device_id # heartbeat_logs[j].device_id

\* C3: the log holds exactly the min(n, LOG_RETENTION) rows appended last, n being
\* the number of rows ever appended (the AUTOINCREMENT counter): the row just
\* appended is among them and every evicted row was appended before every kept one.
C3_MostRecentlyAppendedKept ==
    {heartbeat_logs[i].id : i \in DOMAIN heartbeat_logs} =
        (Max(0, log_seq - LOG_RETENTION) + 1)..log_seq

\* C4: list_devices returns one entry per row of the registry, none twice, none
\* for another id, in ascending order of the rows' created_at.
C4_OneEntryPerIdentity ==
    resp.op = "devices" =>
        /\ Len(resp.devices) = Cardinality(peer.rows)
        /\ {resp.devices[i].id : i \in DOMAIN resp.devices} = RegistryIds
        /\ \A i, j \in DOMAIN resp.devices :
               i < j =>
                   \E ri, rj \in peer.rows :
                       /\ ri.id = resp.devices[i].id
                       /\ rj.id = resp.devices[j].id
                       /\ ri.created_at <= rj.created_at

\* C5: in a list_devices result total is the number of entries, online the number
\* of entries with is_online, offline = total - online.
C5_CountsConsistent ==
    resp.op = "devices" =>
        /\ resp.total = Len(resp.devices)
        /\ resp.online = Cardinality({i \in DOMAIN resp.devices : resp.devices[i].is_online})
        /\ resp.offline = resp.total - resp.online
        /\ resp.online + resp.offline = resp.total
        /\ 0 <= resp.online /\ resp.online <= resp.total

\* a listing with an online and an offline device
C5_Witness ==
    /\ resp.op = "devices"
    /\ resp.online >= 1
    /\ resp.offline >= 1

C7_UnregisteredInvisibleButStored ==
    /\ resp.op = "devices" =>
           /\ \A i \in DOMAIN resp.devices : resp.devices[i].id \in RegistryIds
           /\ resp.total <= Cardinality(peer.rows)
           /\ resp.online <= Cardinality(RegistryIds \cap DOMAIN online_devices)
    /\ (/\ req.op = "sysinfo"
        /\ Parsed(req, SYSINFO_BODY_LIMIT)
        /\ HasId(req)
        /\ IdOf(req) \notin RegistryIds) =>
           LET stored == GetDeviceInfo(IdOf(req))
           IN  /\ DOMAIN stored # {}
               /\ stored.id = IdOf(req)
               /\ stored.hostname = PyStr(Get(req.body.d, "hostname", JStr(<<>>)))
               /\ stored.last_ip = req.ip
    /\ \A id \in (DOMAIN online_devices \cup DOMAIN device_info) \ RegistryIds :
           resp.op = "devices" => \A i \in DOMAIN resp.devices : resp.devices[i].id # id

\* a listing of a registry with rows, after X sent a heartbeat and a report
C7_Witness ==
    /\ req.op = "devices"
    /\ resp.total >= 1
    /\ DevX \in DOMAIN online_devices
    /\ DevX \in DOMAIN device_info
    /\ DevX \notin RegistryIds

\* C8: a telemetry row is created with created_at = last_seen = the time of the
\* first report, created_at never changes afterwards, every applied report sets
\* last_seen to its time, nothing else changes the table, and last_seen >= created_at.
C8_CreatedAtImmutable ==
    [][/\ \A id \in DOMAIN device_info :
              /\ id \in DOMAIN device_info'
              /\ device_info'[id].created_at = device_info[id].created_at
       /\ \A id \in DOMAIN device_info' \ DOMAIN device_info :
              /\ device_info'[id].created_at = now
              /\ device_info'[id].last_seen = now
       /\ \A id \in DOMAIN device_info' :
              device_info'[id].last_seen >= device_info'[id].created_at
       /\ (SysinfoStep /\ Parsed(req', SYSINFO_BODY_LIMIT) /\ HasId(req')) =>
              /\ IdOf(req') \in DOMAIN device_info'
              /\ device_info'[IdOf(req')].last_seen = now
       /\ ~SysinfoStep => device_info' = device_info
      ]_vars

\* a device reported twice, at two times
C8_Witness ==
    \E id \in DOMAIN device_info :
        /\ device_info[id].created_at = StartTime
        /\ device_info[id].last_seen > device_info[id].created_at
        /\ req.op = "sysinfo" /\ HasId(req) /\ IdOf(req) = id

\* C9: a system-info report whose object has no id, or an empty one, changes
\* nothing in the monitor database and is answered without an error.
C9_NoIdIsNoOp ==
    [][(SysinfoStep /\ Parsed(req', SYSINFO_BODY_LIMIT) /\ ~HasId(req')) =>
           /\ device_info' = device_info
           /\ UNCHANGED store
           /\ resp'.status = 200
      ]_vars

\* a report without id was answered while the table holds a row
C9_Witness ==
    /\ req.op = "sysinfo"
    /\ Parsed(req, SYSINFO_BODY_LIMIT)
    /\ "id" \notin DOMAIN req.body.d
    /\ resp.status = 200
    /\ DOMAIN device_info # {}

\* stored is reported cut to its first bound characters
IsPrefixCut(stored, reported, bound) ==
    /\ Len(stored) = Min(Len(reported), bound)
    /\ \A i \in 1..Len(stored) : stored[i] = reported[i]
    /\ Len(reported) <= bound => stored = reported

\* C10: every stored telemetry field is at most as long as its bound; an applied
\* report is answered without an error and leaves, in each field, the reported
\* value cut to the bound, unchanged when it is within the bound.
C10_FieldsTruncated ==
    /\ \A id \in DOMAIN device_info :
           /\ \A k \in TelemetryFields : Len(device_info[id][k]) <= FieldBound(k)
           /\ Len(device_info[id].last_ip) <= IP_LEN
    /\ (req.op = "sysinfo" /\ Parsed(req, SYSINFO_BODY_LIMIT) /\ HasId(req)) =>
           /\ resp.status = 200
           /\ IdOf(req) \in DOMAIN device_info
           /\ \A k \in TelemetryFields :
                  IsPrefixCut(device_info[IdOf(req)][k],
                              PyStr(Get(req.body.d, k, JStr(<<>>))),
                              FieldBound(k))
           /\ IsPrefixCut(device_info[IdOf(req)].last_ip, req.ip, IP_LEN)

\* a report with every field one character over its bound was stored
C10_Witness ==
    /\ req.op = "sysinfo" /\ Parsed(req, SYSINFO_BODY_LIMIT) /\ HasId(req)
    /\ resp.status = 200
    /\ \A k \in TelemetryFields :
           /\ Len(PyStr(Get(req.body.d, k, JStr(<<>>)))) = FieldBound(k) + 1
           /\ Len(device_info[IdOf(req)][k]) = FieldBound(k)
    /\ Len(req.ip) = IP_LEN + 1

\* the step handles a request to set a note
NoteStep == nreq' = nreq + 1 /\ req'.op = "note"

\* C11: for every device id and every text, the empty one too, a note set for
\* the id is what get_device_note returns for that id afterwards, cut to NOTE_LEN
\* characters: the text set last, whole, not joined to an earlier one.
C11_AnnotationRoundTrip ==
    (req.op = "note" /\ req.body.kind = "dict" /\ ~NoteIdMissing(req.body.d)) =>
        GetDeviceNote(PyStr(req.body.d.device_id)) =
            Slice(PyStr(Get(req.body.d, "note", JStr(<<>>))), NOTE_LEN)

\* the device id of a request to set a note is missing or empty
NoNoteId(r) ==
    \/ "device_id" \notin DOMAIN r.body.d
    \/ r.body.d.device_id = JNull
    \/ r.body.d.device_id = JStr(<<>>)

\* C12: a request to set a note whose object has no device id, or an empty one,
\* is answered with a client error and leaves device_notes as it was.
C12_NoteWithoutIdRejected ==
    [][(NoteStep /\ req'.body.kind = "dict" /\ NoNoteId(req')) =>
           /\ resp'.status \in 400..499
           /\ device_notes' = device_notes
      ]_vars

\* a request without device id was refused while a note is stored
C12_Witness ==
    /\ req.op = "note"
    /\ req.body.kind = "dict"
    /\ "device_id" \notin DOMAIN req.body.d
    /\ resp.status = 400
    /\ DevA \in DOMAIN device_notes

\* C13: a heartbeat with a non-empty id D leaves D's presence record equal to
\* the current time, the client's IP and the heartbeat's object, whether D had a
\* record or not and whatever becomes of the log; the other records are unchanged.
C13_PresenceOverwritten ==
    [][(HeartbeatStep /\ Parsed(req', HEARTBEAT_BODY_LIMIT) /\ HasId(req')) =>
           LET D == Slice(IdOf(req'), ID_LEN)
           IN  /\ DOMAIN online_devices' = DOMAIN online_devices \cup {D}
               /\ online_devices'[D].last_heartbeat = now
               /\ online_devices'[D].ip = Slice(req'.ip, IP_LEN)
               /\ online_devices'[D].info = req'.body.d
               /\ \A id \in DOMAIN online_devices \ {D} :
                      online_devices'[id] = online_devices[id]
      ]_vars

\* A sent two heartbeats, the second later, from another address, with another
\* object: the record holds the second
C13_Witness ==
    /\ Len(heartbeat_logs) = 2
    /\ heartbeat_logs[1].device_id = DevA /\ heartbeat_logs[2].device_id = DevA
    /\ heartbeat_logs[1].timestamp < heartbeat_logs[2].timestamp
    /\ heartbeat_logs[1].ip_address = IpHb
    /\ online_devices[DevA].last_heartbeat = heartbeat_logs[2].timestamp
    /\ online_devices[DevA].ip = IpSys
    /\ online_devices[DevA].info.ver = JInt(2)

\* C14: a heartbeat whose object has no id, or an empty one, is answered with a
\* client error, not with a success, and changes neither the presence table nor
\* the heartbeat log.
C14_HeartbeatWithoutIdRejected ==
    [][(HeartbeatStep /\ Parsed(req', HEARTBEAT_BODY_LIMIT) /\ ~HasId(req')) =>
           /\ resp'.status \in 400..499
           /\ UNCHANGED <<online_devices, heartbeat_logs, log_seq>>
      ]_vars

\* C15: a heartbeat whose body has more than HEARTBEAT_BODY_LIMIT bytes and a
\* system-info report whose body has more than SYSINFO_BODY_LIMIT bytes change
\* neither the presence table nor the heartbeat log nor the telemetry rows.
C15_OversizedRejected ==
    [][(\/ HeartbeatStep /\ req'.size > HEARTBEAT_BODY_LIMIT
        \/ SysinfoStep /\ req'.size > SYSINFO_BODY_LIMIT) =>
           UNCHANGED <<online_devices, heartbeat_logs, log_seq, device_info>>
      ]_vars

\* C16: a heartbeat, a system-info report or a request to set a note whose body
\* is not JSON, or is JSON but not an object, is answered with a client error,
\* not a server error, and changes nothing in the presence table and the store.
C16_BadShapeIsClientError ==
    [][((HeartbeatStep \/ SysinfoStep \/ NoteStep) /\ req'.body.kind # "dict") =>
           /\ resp'.status \in 400..499
           /\ UNCHANGED <<online_devices, store>>
      ]_vars

\* the version is one that int() of a non-negative decimal numeral would give
ParsesAsNat(v) ==
    \/ v.t = "int" /\ v.n >= 0
    \/ v.t = "str" /\ Len(v.s) > 0 /\ \A i \in 1..Len(v.s) : v.s[i] \in DecimalSet

\* C17: a heartbeat with an id whose version is present and is not a
\* non-negative integer is appended to the log all the same, with no version.
C17_UnparseableVersionStoredAbsent ==
    [][(/\ HeartbeatStep /\ Parsed(req', HEARTBEAT_BODY_LIMIT) /\ HasId(req')
        /\ "ver" \in DOMAIN req'.body.d
        /\ ~ParsesAsNat(req'.body.d.ver)) =>
           /\ Len(heartbeat_logs') = Len(heartbeat_logs) + 1
           /\ heartbeat_logs'[Len(heartbeat_logs')].device_id = Slice(IdOf(req'), ID_LEN)
           /\ heartbeat_logs'[Len(heartbeat_logs')].version = JNull
      ]_vars

\* some call of the method op raises
FailsAny(op) == \E f \in faults : f.op = op

\* C18: a fault in update_device_info, log_heartbeat or update_device_note leaves
\* the table as it was before the call, whichever call raised, and the handler
\* answers as if nothing had happened; a fault in get_device_info or
\* get_device_note gives the listing {} and "" for that device; get_device_info
\* gives {} for an id without row.
C18_FaultsCaughtInsideOperation ==
    [][/\ (HeartbeatStep /\ HasId(req') /\ FailsAny("log_heartbeat")) =>
              /\ heartbeat_logs' = heartbeat_logs
              /\ log_seq' = log_seq
              /\ resp'.status = 200
       /\ (SysinfoStep /\ FailsAny("update_device_info")) =>
              /\ device_info' = device_info
              /\ resp'.status = 200
       /\ (NoteStep /\ FailsAny("update_device_note")) =>
              /\ device_notes' = device_notes
              /\ resp'.status = 200
       /\ (req'.op = "devices" /\ GetDevices) =>
              /\ resp'.status = 200
              /\ \A i \in DOMAIN resp'.devices :
                     LET e == resp'.devices[i]
                     IN  /\ LookupFails("get_device_info", e.id) =>
                                /\ GetDeviceInfo(e.id) = EmptyDict
                                /\ e.hostname = <<>> /\ e.username = <<>>
                                /\ e.os = <<>> /\ e.cpu = <<>> /\ e.memory = <<>>
                                /\ e.version = <<>> /\ e.last_ip = e.original_ip
                         /\ LookupFails("get_device_note", e.id) =>
                                /\ GetDeviceNote(e.id) = <<>>
                                /\ e.note = <<>>
       /\ \A id \in {DevA, DevB, DevX} :
              id \notin DOMAIN device_info => GetDeviceInfo(id) = EmptyDict
      ]_vars

\* a heartbeat was answered while the DELETE of log_heartbeat raises: the
\* presence record is there, the log has no row
C18_Witness ==
    /\ Fails("log_heartbeat", "delete")
    /\ req.op = "heartbeat"
    /\ resp.status = 200
    /\ DevA \in DOMAIN online_devices
    /\ heartbeat_logs = <<>>

\* C19: a listing taken while get_device_info or get_device_note fails for some
\* devices is answered without error and has one entry for every row of the
\* registry: empty telemetry and note for the devices whose lookup failed, the
\* stored values and the presence for the others.
C19_BestEffortListing ==
    [][(req'.op = "devices" /\ GetDevices) =>
           /\ resp'.status = 200
           /\ Len(resp'.devices) = Cardinality(peer.rows)
           /\ {resp'.devices[i].id : i \in DOMAIN resp'.devices} = RegistryIds
           /\ \A i \in DOMAIN resp'.devices :
                  LET e == resp'.devices[i]
                  IN  /\ e.hostname =
                             IF LookupFails("get_device_info", e.id)
                                \/ e.id \notin DOMAIN device_info
                             THEN <<>> ELSE device_info[e.id].hostname
                      /\ e.note =
                             IF LookupFails("get_device_note", e.id)
                                \/ e.id \notin DOMAIN device_notes
                             THEN <<>> ELSE device_notes[e.id].note
                      /\ e.is_online =
                             (/\ e.id \in DOMAIN online_devices
                              /\ now - online_devices[e.id].last_heartbeat
                                     < OFFLINE_TIMEOUT_SECONDS)
      ]_vars

\* C20: the committed heartbeat log, which is all that a connection other than
\* the writer's reads, never holds more than LOG_RETENTION rows, also while a
\* transaction has inserted and not yet trimmed; one connection writes at a time.
C20_InsertAndTrimAtomic ==
    /\ Len(heartbeat_logs) <= LOG_RETENTION
    /\ Cardinality({c \in Connections : txn[c].pc # "idle"}) <= 1
    /\ \A c \in Connections :
           txn[c].pc # "idle" => Len(Visible(heartbeat_logs, txn[c].rows)) <= LOG_RETENTION

\* a transaction holds LOG_RETENTION + 1 rows, inserted and not trimmed, over a
\* committed log that is full
C20_Witness ==
    \E c \in Connections :
        /\ txn[c].pc = "inserted"
        /\ Len(txn[c].rows) = LOG_RETENTION + 1
        /\ Len(heartbeat_logs) = LOG_RETENTION

(***************************************************************************)
(* C21: with heartbeats of one device and listings in progress at the      *)
(* same time, every presence record is whole: its time, address and body   *)
(* are those of one single heartbeat, which the log holds with the same    *)
(* time, and a listing shows for a device either Never or the time of one  *)
(* of its heartbeats.                                                      *)
(***************************************************************************)
FromOneHeartbeat(id, rec) ==
    \E r \in ConcHeartbeats :
        /\ Slice(IdOf(r), ID_LEN) = id
        /\ rec.ip = GetClientIp(r)
        /\ rec.info = r.body.d
        /\ \E i \in DOMAIN heartbeat_logs :
              /\ heartbeat_logs[i].device_id = id
              /\ heartbeat_logs[i].timestamp = rec.last_heartbeat
              /\ heartbeat_logs[i].ip_address = rec.ip
              /\ heartbeat_logs[i].version = LogVersion(Get(rec.info, "ver", JInt(0)))

C21_PresenceRecordWhole ==
    /\ \A id \in DOMAIN online_devices :
          /\ DOMAIN online_devices[id] = {"last_heartbeat", "ip", "info"}
          /\ FromOneHeartbeat(id, online_devices[id])
    /\ resp.op = "devices" =>
          \A i \in DOMAIN resp.devices :
              \/ /\ resp.devices[i].last_heartbeat_time = NEVER
                 /\ ~resp.devices[i].is_online
              \/ \E j \in DOMAIN heartbeat_logs :
                    /\ heartbeat_logs[j].device_id = resp.devices[i].id
                    /\ resp.devices[i].last_heartbeat_time =
                          Strftime(heartbeat_logs[j].timestamp)

\* a listing was served after the first of two heartbeats of DevA that were
\* received together, the second still waiting for its body
C21_Witness ==
    /\ resp.op = "devices"
    /\ DevA \in DOMAIN online_devices
    /\ \E i \in DOMAIN resp.devices :
          resp.devices[i].id = DevA /\ resp.devices[i].is_online
    /\ \E c \in Connections :
          /\ txn[c].pc = "received"
          /\ IdOf(txn[c].r) = DevA
          /\ txn[c].r.ip # online_devices[DevA].ip

(***************************************************************************)
(* C22: with update_device_info calls for one device in progress at the    *)
(* same time, two first reports included, a device has one row, the row    *)
(* is a row of one single report, created_at is the time of the insert     *)
(* that was applied and never changes afterwards, and every handler        *)
(* answers 200.                                                            *)
(***************************************************************************)
RowOfOneReport(id, row) ==
    \E r \in UpsertRequests :
        /\ IdOf(r) = id
        /\ row = TelemetryRow(id, r.body.d, GetClientIp(r), row.created_at, row.last_seen)

C22_ConcurrentUpsertOneRow ==
    [][/\ \A id \in DOMAIN device_info :
             /\ id \in DOMAIN device_info'
             /\ device_info'[id].created_at = device_info[id].created_at
       /\ \A id \in DOMAIN device_info' :
             /\ device_info'[id].id = id
             /\ RowOfOneReport(id, device_info'[id])
       /\ \A c \in Connections :
             (txn[c].pc = "selected" /\ txn'[c].pc = "idle") =>
                 /\ resp' = Response("sysinfo", 200)
                 /\ IdOf(txn[c].r) \in DOMAIN device_info'
                 /\ IdOf(txn[c].r) \notin DOMAIN device_info =>
                        device_info'[IdOf(txn[c].r)].created_at = txn[c].at]_vars

\* two first reports of DevA ran together: the call that finished last lost
\* its INSERT to the row of the other and was still answered 200
C22_Witness ==
    /\ \A c \in Connections : txn[c].pc = "idle"
    /\ req.op = "sysinfo"
    /\ resp = Response("sysinfo", 200)
    /\ IdOf(req) = DevA
    /\ DevA \in DOMAIN device_info
    /\ device_info[DevA].hostname # PyStr(Get(req.body.d, "hostname", JStr(<<>>)))

(***************************************************************************)
(* C23: a write request repeated right after it was answered 200 leaves    *)
(* the stored records as the first call left them: the telemetry rows      *)
(* apart from created_at and last_seen, the note texts, and the set of     *)
(* heartbeat-log entries apart from row id and timestamp.                  *)
(***************************************************************************)
TelemetryContent(table) ==
    [id \in DOMAIN table |->
        [k \in DOMAIN table[id] \ {"created_at", "last_seen"} |-> table[id][k]]]

NoteContent(table) == [id \in DOMAIN table |-> table[id].note]

LogContent(rows) ==
    {[device_id |-> rows[i].device_id,
      ip_address |-> rows[i].ip_address,
      version |-> rows[i].version] : i \in DOMAIN rows}

C23_RetryKeepsRecords ==
    [][(/\ nreq' = nreq + 1
        /\ req' = req
        /\ req.op \in {"heartbeat", "sysinfo", "note"}
        /\ resp.status = 200
        /\ resp'.status = 200)
       => /\ TelemetryContent(device_info') = TelemetryContent(device_info)
          /\ NoteContent(device_notes') = NoteContent(device_notes)
          /\ LogContent(heartbeat_logs') = LogContent(heartbeat_logs)]_vars

(***************************************************************************)
(* C24: the health probe reports as online_devices the number of presence  *)
(* records whose last heartbeat is less than the timeout in the past,      *)
(* together with the timeout of 90 seconds and the existence flags of the  *)
(* two databases.                                                          *)
(***************************************************************************)
C24_HealthCountsOnline ==
    [][(req'.op = "health" /\ HealthCheck) =>
          /\ resp'.online_devices =
                Cardinality({id \in DOMAIN online_devices :
                                 now - online_devices[id].last_heartbeat
                                     < OFFLINE_TIMEOUT_SECONDS})
          /\ resp'.offline_timeout = 90
          /\ resp'.rustdesk_db_exists = peer.exists
          /\ resp'.monitor_db_exists]_vars

(***************************************************************************)
(* C25: a restart of the process empties the presence table and leaves     *)
(* the telemetry rows, the heartbeat log and the notes as they were; as    *)
(* long as no heartbeat was accepted since the start of the process, a     *)
(* listing shows every registry identity offline with last_heartbeat_time  *)
(* "never".                                                                *)
(***************************************************************************)
NoHeartbeatSinceStart == DOMAIN logged = {}

C25_RestartLosesPresenceOnly ==
    [][/\ Restart =>
             /\ online_devices' = EmptyDict
             /\ store' = store
             /\ peer' = peer
       /\ (req'.op = "devices" /\ GetDevices /\ NoHeartbeatSinceStart) =>
             /\ Len(resp'.devices) = Cardinality(peer.rows)
             /\ \A i \in DOMAIN resp'.devices :
                   /\ ~resp'.devices[i].is_online
                   /\ resp'.devices[i].last_heartbeat_time = NEVER]_vars

\* DevA sent a heartbeat less than the timeout ago and DevB a report, the
\* process restarted, and the listing shows both offline, DevB with its host
C25_Witness ==
    /\ resp.op = "devices"
    /\ NoHeartbeatSinceStart
    /\ online_devices = EmptyDict
    /\ \E j \in DOMAIN heartbeat_logs :
          /\ heartbeat_logs[j].device_id = DevA
          /\ now - heartbeat_logs[j].timestamp < OFFLINE_TIMEOUT_SECONDS
    /\ DevB \in DOMAIN device_info
    /\ \E i \in DOMAIN resp.devices :
          /\ resp.devices[i].id = DevA
          /\ ~resp.devices[i].is_online
          /\ resp.devices[i].last_heartbeat_time = NEVER
    /\ \E i \in DOMAIN resp.devices :
          /\ resp.devices[i].id = DevB
          /\ resp.devices[i].hostname = device_info[DevB].hostname
          /\ resp.devices[i].hostname # <<>>

(***************************************************************************)
(* C26: while the process runs, the tracked ids only grow and are the ids  *)
(* that had a heartbeat accepted; a step changes the presence table only   *)
(* if it is an accepted heartbeat, and then only the record of the         *)
(* heartbeat's own device; sysinfo, the note update, the listing, the      *)
(* index page and the health probe leave the table as it is, and a device  *)
(* that only sends sysinfo is never tracked.                               *)
(***************************************************************************)
AcceptedHeartbeat ==
    /\ HeartbeatStep
    /\ Parsed(req', HEARTBEAT_BODY_LIMIT)
    /\ HasId(req')

C26_PresenceFrame ==
    [][/\ ~Restart =>
             /\ DOMAIN online_devices \subseteq DOMAIN online_devices'
             /\ online_devices' # online_devices => AcceptedHeartbeat
             /\ AcceptedHeartbeat =>
                    Slice(IdOf(req'), ID_LEN) \in DOMAIN online_devices'
             /\ \A id \in DOMAIN online_devices' :
                    (id \notin DOMAIN online_devices
                         \/ online_devices'[id] # online_devices[id])
                        => id = Slice(IdOf(req'), ID_LEN)
       /\ DOMAIN online_devices' = DOMAIN logged'
       /\ \A r \in PresenceSysinfos : IdOf(r) \notin DOMAIN online_devices'
       /\ (req'.op = "devices" /\ GetDevices) =>
             \A i \in DOMAIN resp'.devices, r \in PresenceSysinfos :
                 resp'.devices[i].id = IdOf(r) => ~resp'.devices[i].is_online]_vars

\* DevA's record is past the timeout and still there after a heartbeat of
\* DevX; DevB, which sent a report only, is not tracked
C26_Witness ==
    /\ DOMAIN online_devices = {DevA, DevX}
    /\ now - online_devices[DevA].last_heartbeat >= OFFLINE_TIMEOUT_SECONDS
    /\ online_devices[DevX].last_heartbeat = now
    /\ req.op \in {"devices", "health", "index"}

(***************************************************************************)
(* C27: liveness is a function of the last heartbeat alone.  A listing     *)
(* shows a tracked device online exactly when its last heartbeat is less   *)
(* than the timeout ago, with that heartbeat's time as                     *)
(* last_heartbeat_time; a device past the timeout stays past it until a    *)
(* heartbeat of its own is accepted, which puts it inside the window       *)
(* again at once; and a tracked device that sends no more heartbeats is    *)
(* eventually past the timeout for ever.                                   *)
(***************************************************************************)
PastTimeout(id) ==
    /\ id \in DOMAIN online_devices
    /\ now - online_devices[id].last_heartbeat >= OFFLINE_TIMEOUT_SECONDS

C27_NoHysteresis ==
    /\ [][/\ (req'.op = "devices" /\ GetDevices) =>
                \A i \in DOMAIN resp'.devices :
                    LET id == resp'.devices[i].id
                    IN  id \in DOMAIN online_devices =>
                            /\ resp'.devices[i].is_online <=> ~PastTimeout(id)
                            /\ resp'.devices[i].last_heartbeat_time =
                                   Strftime(online_devices[id].last_heartbeat)
          /\ \A id \in DOMAIN online_devices :
                (PastTimeout(id)
                     /\ ~(AcceptedHeartbeat /\ Slice(IdOf(req'), ID_LEN) = id))
                    => /\ PastTimeout(id)'
                       /\ online_devices'[id].last_heartbeat
                              = online_devices[id].last_heartbeat
          /\ AcceptedHeartbeat =>
                now' - online_devices'[Slice(IdOf(req'), ID_LEN)].last_heartbeat = 0]_vars
    /\ \A id \in {DevA, DevB} :
          (id \in DOMAIN online_devices /\ nreq = MaxRequests) ~> []PastTimeout(id)

\* DevA went past the timeout, sent a heartbeat again, and the listing served
\* after it shows DevA online
C27_Witness ==
    /\ resp.op = "devices"
    /\ \E i \in DOMAIN resp.devices :
          /\ resp.devices[i].id = DevA
          /\ resp.devices[i].is_online
          /\ resp.devices[i].last_heartbeat_time = Strftime(now)
    /\ \E j \in DOMAIN heartbeat_logs :
          /\ heartbeat_logs[j].device_id = DevA
          /\ now - heartbeat_logs[j].timestamp >= OFFLINE_TIMEOUT_SECONDS

(***************************************************************************)
(* C28: a report for a device that has a row replaces hostname, username,  *)
(* os, cpu, memory, version, uuid and last_ip by the values of the report, *)
(* cut to their bounds, a field that the report does not carry becoming    *)
(* the empty text; the row keeps its id and its created_at only.           *)
(***************************************************************************)
C28_UpdateReplacesEveryField ==
    [][(/\ SysinfoStep
        /\ Parsed(req', SYSINFO_BODY_LIMIT)
        /\ HasId(req')
        /\ IdOf(req') \in DOMAIN device_info)
       => LET id == IdOf(req')
              d == req'.body.d
              old == device_info[id]
              new == device_info'[id]
          IN  /\ DOMAIN new = DOMAIN old
              /\ \A k \in TelemetryFields :
                    new[k] = IF k \in DOMAIN d
                             THEN Slice(PyStr(d[k]), FieldBound(k))
                             ELSE <<>>
              /\ new.last_ip = Slice(req'.ip, IP_LEN)
              /\ new.last_seen = now
              /\ new.created_at = old.created_at
              /\ new.id = old.id]_vars

\* the report that carries the id alone reached a row made earlier: every
\* field of the row is empty
C28_Witness ==
    /\ req.op = "sysinfo"
    /\ req.body.kind = "dict"
    /\ DOMAIN req.body.d = {"id"}
    /\ resp = Response("sysinfo", 200)
    /\ IdOf(req) \in DOMAIN device_info
    /\ device_info[IdOf(req)].created_at < device_info[IdOf(req)].last_seen
    /\ device_info[IdOf(req)].last_seen = now
    /\ \A k \in TelemetryFields : device_info[IdOf(req)][k] = <<>>

(***************************************************************************)
(* C29: the "device came online" line is written once for a device id in   *)
(* the lifetime of the process, by the first heartbeat accepted from that  *)
(* id: every tracked id has exactly one line, no other id has one, a line  *)
(* is written only by the step that starts tracking the id, and neither a  *)
(* heartbeat after the timeout nor heartbeats of one id in progress        *)
(* together write a second one.                                            *)
(***************************************************************************)
C29_CameOnlineLoggedOnce ==
    [][/\ DOMAIN logged' = DOMAIN online_devices'
       /\ \A id \in DOMAIN logged' : logged'[id] = 1
       /\ logged' # logged =>
             \E id \in DOMAIN online_devices' \ DOMAIN online_devices :
                 /\ logged' = (id :> 1) @@ logged
                 /\ \E c \in Connections :
                       /\ txn[c].pc = "received"
                       /\ txn'[c].pc = "idle"
                       /\ Slice(IdOf(txn[c].r), ID_LEN) = id]_vars

\* DevA sent a second heartbeat after it had gone past the timeout
C29_Witness ==
    /\ DevA \in DOMAIN online_devices
    /\ logged[DevA] = 1
    /\ online_devices[DevA].last_heartbeat = now
    /\ \E j \in DOMAIN heartbeat_logs :
          /\ heartbeat_logs[j].device_id = DevA
          /\ now - heartbeat_logs[j].timestamp >= OFFLINE_TIMEOUT_SECONDS
    /\ \A c \in Connections : txn[c].pc = "idle"

(***************************************************************************)
(* C30: whatever the info column of a registry row holds, the row is in    *)
(* the listing, with original_ip the ip of the info object when the column *)
(* is an object with an ip, and the "unknown" text otherwise.              *)
(***************************************************************************)
OriginIp(row) ==
    IF row.info.kind = "dict" /\ PyTruthy(Get(row.info.d, "ip", JNull))
    THEN PyStr(row.info.d["ip"])
    ELSE UNKNOWN

C30_UnparseableInfoKeepsRow ==
    resp.op = "devices" =>
        \A row \in peer.rows :
            \E i \in DOMAIN resp.devices :
                /\ resp.devices[i].id = row.id
                /\ resp.devices[i].original_ip = OriginIp(row)

(***************************************************************************)
(* C31: a heartbeat whose version is a non-negative integer, 0 and the     *)
(* default of a payload without version included, writes a log entry that  *)
(* holds that integer as version; the version of a log entry is absent     *)
(* only when the value does not parse as a non-negative integer.           *)
(***************************************************************************)
NatOf(v) == IF v.t = "int" THEN v.n ELSE DecimalStrValue(v.s)

C31_IntegerVersionStored ==
    [][(HeartbeatStep /\ Parsed(req', HEARTBEAT_BODY_LIMIT) /\ HasId(req')) =>
          LET version == Get(req'.body.d, "ver", JInt(0))
              n == Len(heartbeat_logs')
          IN  /\ ParsesAsNat(version) =>
                    /\ n = Len(heartbeat_logs) + 1
                    /\ heartbeat_logs'[n].device_id = Slice(IdOf(req'), ID_LEN)
                    /\ heartbeat_logs'[n].version = JInt(NatOf(version))
              /\ (n = Len(heartbeat_logs) + 1 /\ heartbeat_logs'[n].version = JNull)
                    => ~ParsesAsNat(version)]_vars

(***************************************************************************)
(* C32: the heartbeat handler attempts the log append first and updates    *)
(* the presence afterwards, whatever became of the append.  When the       *)
(* append of a heartbeat ends, committed, rolled back after a fault or     *)
(* refused because the database is locked, the request is answered 200     *)
(* and its device has a presence record with the current time; the         *)
(* presence changes at no other step.  With no heartbeat in progress,      *)
(* every log row written since the start of the process belongs to a       *)
(* device whose presence record is not older than the row.                 *)
(***************************************************************************)
AppendEnds(c) == txn[c].pc \in {"inserted", "trimmed"} /\ txn'[c].pc = "idle"

AppendRefused == nreq' = nreq + 1 /\ txn' = txn

Acknowledged(r) ==
    LET id == Slice(IdOf(r), ID_LEN)
    IN  /\ req' = r
        /\ resp' = Response("heartbeat", 200)
        /\ id \in DOMAIN online_devices'
        /\ online_devices'[id].last_heartbeat = now'

C32_LogFaultDoesNotStopHeartbeat ==
    [][/\ \A c \in Connections : AppendEnds(c) => Acknowledged(txn[c].r)
       /\ AppendRefused =>
             /\ Acknowledged(req')
             /\ heartbeat_logs' = heartbeat_logs
       /\ online_devices' # online_devices =>
             AppendRefused \/ \E c \in Connections : AppendEnds(c)
       /\ (\A c \in Connections : txn'[c].pc = "idle") =>
             \A i \in DOMAIN heartbeat_logs' :
                 heartbeat_logs'[i].id > PrefillLen =>
                     /\ heartbeat_logs'[i].device_id \in DOMAIN online_devices'
                     /\ online_devices'[heartbeat_logs'[i].device_id].last_heartbeat
                            >= heartbeat_logs'[i].timestamp]_vars

\* a heartbeat of DevA was answered 200 and DevA is present with the current
\* time, while no row was committed since the start of the process
C32_Witness ==
    /\ \A c \in Connections : txn[c].pc = "idle"
    /\ req.op = "heartbeat"
    /\ resp = Response("heartbeat", 200)
    /\ IdOf(req) = DevA
    /\ DevA \in DOMAIN online_devices
    /\ online_devices[DevA].last_heartbeat = now
    /\ log_seq = PrefillLen
    /\ \A i \in DOMAIN heartbeat_logs : heartbeat_logs[i].id <= PrefillLen

(***************************************************************************)
(* C33: in a listing the last_ip of a registry identity is the last_ip of  *)
(* its telemetry row when it has one, and the address the registry holds   *)
(* for it otherwise; the address kept in the presence record plays no      *)
(* part, so a heartbeat leaves the last_ip of every identity as it was.    *)
(***************************************************************************)
ListedLastIp(row) == MergedView(PeerEntry(row), now).last_ip

C33_LastIpPrecedence ==
    [][/\ (req'.op = "devices" /\ GetDevices) =>
             \A i \in DOMAIN resp'.devices :
                 LET e == resp'.devices[i]
                 IN  /\ \E row \in peer.rows :
                           row.id = e.id /\ e.original_ip = PeerIp(row)
                     /\ e.last_ip = IF e.id \in DOMAIN device_info
                                    THEN device_info[e.id].last_ip
                                    ELSE e.original_ip
       /\ HeartbeatStep =>
             \A row \in peer.rows :
                 ~PeerRowRaises(row) => ListedLastIp(row)' = ListedLastIp(row)]_vars

\* DevA is listed with the address of its report, which is neither the
\* address of its heartbeat nor the one the registry holds
C33_Witness ==
    /\ resp.op = "devices"
    /\ DevA \in DOMAIN online_devices
    /\ DevA \in DOMAIN device_info
    /\ \E i \in DOMAIN resp.devices :
          /\ resp.devices[i].id = DevA
          /\ resp.devices[i].last_ip = device_info[DevA].last_ip
          /\ resp.devices[i].last_ip # online_devices[DevA].ip
          /\ resp.devices[i].last_ip # resp.devices[i].original_ip
          /\ resp.devices[i].original_ip # online_devices[DevA].ip

=============================================================================
